---- MODULE Spec2Model ----
(***************************************************************************)
(* A model of the device communication stack of the KB1 MIDI editor:       *)
(*   - BLEClient (src/src/ble/bleClient.ts), the Web Bluetooth transport,  *)
(*   - KeepAliveService (src/unnamed/part_007), the ping scheduler,        *)
(*   - midiBle (src/unnamed/part_007), the rate-limited control channel.   *)
(*                                                                         *)
(* The browser is a single event loop: every action below is one task of   *)
(* that loop, i.e. the code a handler runs between two awaits.  The Web    *)
(* Bluetooth runtime is the environment: it settles the promises the code  *)
(* awaits and raises gattserverdisconnected.                               *)
(***************************************************************************)
EXTENDS Integers, Sequences, FiniteSets, TLC

\* The devices the chooser can offer.
Devices == {"A", "B"}

\* null / undefined
None == "none"

\* connect() calls in one run (every call registers listeners that stay).
MaxConnects == 2

\* GATT writes on the data characteristic that may be outstanding at once.
MaxPending == 2

VARIABLES
    \* ---- BLEClient fields (bleClient.ts 22-26)
    device,             \* this.device
    server,             \* this.server: the device whose GATT server it is
    characteristic,     \* this.characteristic: the device whose data characteristic it is
    onStatusChange,     \* a status-changed callback is registered
    \* ---- the Web Bluetooth runtime
    btAvailable,        \* 'bluetooth' in navigator
    gattConnected,      \* device.gatt.connected, per device
    devListeners,       \* gattserverdisconnected listeners, per device
    charListeners,      \* characteristicvaluechanged listeners, per data characteristic
    pending,            \* writeValue promises not yet settled
    \* ---- connect() in progress
    cPc,                \* the await connect() is suspended at
    connects,           \* connect() calls so far
    cStart,             \* connect() was called on a disconnected client
    \* ---- Device State Synchronizer
    applyInFlight,      \* an applySettings call has not resolved yet
    \* ---- KeepAliveService fields (part_007 325-328) and its ActivityTracker
    sendPingCallback,   \* a ping callback is set
    isRunning,
    pingInterval,       \* this.pingInterval holds a timer
    timers,             \* interval timers set and not cleared
    isActive,           \* ActivityTracker.isActive
    subs,               \* listeners registered, per interaction source
    lastActivity,       \* ActivityTracker.lastActivity
    wallNow,            \* Date.now()
    tickDue,            \* when the interval timer is next due, or -1
    thLastCall,         \* throttle: lastCall
    thTimeout,          \* throttle: when the pending timeout is due, or -1
    \* ---- midiBle: the module state (part_007 491-497) and its runtime
    mbDevice,           \* state.device
    mbServer,           \* state.server
    mbCharacteristic,   \* state.characteristic
    lastSendMs,         \* state.lastSendMs
    perfNow,            \* performance.now()
    mbGatt,             \* device.gatt.connected, per device
    mbListeners,        \* gattserverdisconnected listeners, per device
    mbPc,               \* the await midiBle.connect() is suspended at
    mbConnects,         \* midiBle.connect() calls so far
    \* ---- BLEClient preset fields (bleClient.ts 347-350) and their discovery
    presetSave,         \* this.presetSaveCharacteristic: the device it belongs to
    presetLoad,         \* this.presetLoadCharacteristic
    presetList,         \* this.presetListCharacteristic
    presetDelete,       \* this.presetDeleteCharacteristic
    psPc,               \* the getCharacteristic the discovery is suspended at
    psFor,              \* the connect() whose discovery has run
    psOp,               \* the preset operation that has not settled yet
    \* ---- history
    psFound,            \* preset characteristics the last discovery found
    psHist,             \* the writes and reads of the last loadDevicePreset
    cdCall,             \* the last codec call: function, arguments, result
    stCall,             \* the last encodeSettings: settings, result
    notifications,      \* how connect() last came out of its subscription
    session,            \* how the last session began or ended
    delivered,          \* the status notifications the last step delivered
    lastCall,           \* the operation the last step ran, and its outcome
    prevWriteMs,        \* when sendControlChange last issued a write, or -1
    steady,             \* the control channel stayed connected since then
    lastOkMs,           \* when the last frame whose write succeeded was sent, or -1
    ccCall,             \* the last sendControlChange call, and its outcome
    dropsSince,         \* a call was dropped since sendControlChange last issued a write
    lastValue,          \* the value passed to the last sendControlChange call, or -1
    sentValue,          \* the value of the last frame written to the transport, or -1
    kaTick,             \* the last tick of the interval timer, and what it did
    away,               \* the last tick was skipped for inactivity
    trk,                \* the last callback of the Activity Tracker that ran
    lastRecordMs,       \* when start() or updateActivity() last ran
    prevUpdateMs,       \* when updateActivity() last ran, or -1
    lastEventMs,        \* when an interaction event was last received, or -1
    startRefused,       \* a startKeepAlive() found no ping callback
    pingFailed,         \* a ping callback has rejected
    \* ---- PresetStore: localStorage (presets.ts 7-10)
    presetIds,          \* the id array under kb1.presets.list
    presetItems,        \* the ids that have a kb1.preset.<id> item
    idsIssued,          \* preset ids createPreset has generated so far
    imCall              \* the last importAllPresets: input, result, ids before

bleVars == <<device, server, characteristic, onStatusChange, btAvailable,
             gattConnected, devListeners, charListeners, pending, cPc,
             connects, cStart, applyInFlight, session, delivered, lastCall>>

bleVarsButHistory ==
    <<device, server, characteristic, onStatusChange, btAvailable,
      gattConnected, devListeners, charListeners, pending, cPc, connects,
      cStart, applyInFlight, session>>

\* The fields sendPing's try/catch could touch.
kaSched == <<isRunning, pingInterval, pingFailed, timers>>

\* The Activity Tracker and its throttle.
kaTracker == <<isActive, subs, lastActivity, thLastCall, thTimeout, trk,
               lastRecordMs, prevUpdateMs, lastEventMs>>

kaRest == <<sendPingCallback, wallNow, tickDue, kaTick, away, kaTracker,
            startRefused>>

kaVars == <<kaSched, kaRest>>

ccVars == <<mbDevice, mbServer, mbCharacteristic, lastSendMs, perfNow, mbGatt,
            mbListeners, mbPc, mbConnects, prevWriteMs, steady, lastOkMs,
            ccCall, dropsSince, lastValue, sentValue>>

\* The history of the control channel's calls.
ccHistory == <<ccCall, dropsSince, lastValue, sentValue>>

\* The preset fields of BLEClient and the discovery of connect().
presetVars == <<presetSave, presetLoad, presetList, presetDelete, psPc, psFor,
                psFound, psOp, psHist>>

\* The last call of a codec function.
codecVars == <<cdCall, stCall>>

\* The subscription of connect() to value-changed notifications.
notifVars == <<notifications>>

\* The preset store in localStorage and the last import into it.
storeVars == <<presetIds, presetItems, idsIssued, imCall>>

vars == <<bleVars, kaVars, ccVars, presetVars, codecVars, notifVars, storeVars>>

\* ------------------------------------------------------------------------
\* Records of the history variables

\* op: the operation; result: how it ended; wrote: it issued a transport
\* write or read; noSession: NoSession held when it was called; pre: the
\* operation's own precondition, as the comments at each action say; ch: the
\* device the operation acted on.
Call(op, result, wrote, noSession, pre, ch) ==
    [op |-> op, result |-> result, wrote |-> wrote,
     noSession |-> noSession, pre |-> pre, ch |-> ch]

\* BLEConnectionStatus (bleClient.ts 15-19), as notifyStatusChange builds it.
Status(connected, dev, error) ==
    [connected |-> connected, device |-> dev, error |-> error]

\* A step that runs no operation of interest.
NoCall == Call("none", "none", FALSE, FALSE, FALSE, None)

\* ------------------------------------------------------------------------
\* Function objects and event targets

\* `this.onDisconnected.bind(this)` and `this.onCharacteristicValueChanged
\* .bind(this)` make a new function object each time they are evaluated.
\* The one the k-th connect() makes is named k, the one cleanup() makes 0.
ConnectBound(k) == k

CleanupBound == 0

AddEventListener(listeners, fn) == listeners \cup {fn}

\* Removes the listener that is this very function object, if registered.
RemoveEventListener(listeners, fn) == listeners \ {fn}

\* ------------------------------------------------------------------------
\* BLEClient helpers

\* notifyStatusChange called n times in one task with the same arguments.
Notifications(n, connected, dev, error) ==
    IF onStatusChange
    THEN [i \in 1..n |-> Status(connected, dev, error)]
    ELSE <<>>

\* getStatus().connected
GetStatusConnected == device # None /\ gattConnected[device]

\* No GATT link is up and the client holds no reference.
Disconnected ==
    /\ characteristic = None
    /\ server = None
    /\ \A d \in Devices : ~gattConnected[d]

\* The client has no session: none was established since the last teardown
\* and no connect() is establishing one.
NoSession == cPc = "idle" /\ session \in {"never", "disconnected", "dropped"}

\* A faulty cleanup() that forgets `this.characteristic = null`.
CleanupKeepsCharacteristic ==
    /\ charListeners' =
         IF characteristic # None
         THEN [charListeners EXCEPT ![characteristic] =
                   RemoveEventListener(@, CleanupBound)]
         ELSE charListeners
    /\ characteristic' = characteristic
    /\ server' = None

\* cleanup(): removeEventListener is given a new bound function.
Cleanup ==
    /\ charListeners' =
         IF characteristic # None
         THEN [charListeners EXCEPT ![characteristic] =
                   RemoveEventListener(@, CleanupBound)]
         ELSE charListeners
    /\ characteristic' = None
    /\ server' = None

\* A faulty onDisconnected() that forgets notifyStatusChange(false).
OnDisconnectedSilent(n) ==
    /\ Cleanup
    /\ delivered' = <<>>

\* onDisconnected(), run by each of the n listeners the event reaches.
OnDisconnected(n) ==
    /\ Cleanup
    /\ delivered' = Notifications(n, FALSE, device, None)

\* The runtime's side of a link going down: writes in flight on it are lost.
BreakWrites(d) ==
    [i \in DOMAIN pending |->
        IF pending[i].dev = d THEN [pending[i] EXCEPT !.broken = TRUE]
        ELSE pending[i]]

\* ------------------------------------------------------------------------
\* BLEClient.connect(), one action per await.  A second connect() is not
\* started while one is suspended (the device chooser is modal).

ConnectRejects(error) ==
    /\ cPc' = "idle"
    /\ delivered' = Notifications(1, FALSE, device, error)
    /\ lastCall' = Call("connect", "rejected", FALSE, FALSE, cStart, device)

\* connect() up to `await navigator.bluetooth.requestDevice(...)`.
ConnectCall ==
    /\ cPc = "idle"
    /\ connects < MaxConnects
    /\ connects' = connects + 1
    /\ cStart' = Disconnected
    /\ IF ~btAvailable
       THEN /\ cPc' = "idle"
            /\ delivered' = Notifications(1, FALSE, device, "Unsupported")
            /\ lastCall' = Call("connect", "rejected", FALSE, FALSE,
                                Disconnected, device)
       ELSE /\ cPc' = "requestDevice"
            /\ delivered' = <<>>
            /\ lastCall' = NoCall
    /\ UNCHANGED <<device, server, characteristic, onStatusChange, btAvailable,
                   gattConnected, devListeners, charListeners, pending,
                   applyInFlight, session, kaVars, ccVars, presetVars, codecVars, notifVars, storeVars>>

\* The user picks device d: lines 63-79, up to `await gatt.connect()`.
RequestDeviceResolve(d) ==
    /\ cPc = "requestDevice"
    /\ device' = d
    /\ devListeners' = [devListeners EXCEPT ![d] =
                            AddEventListener(@, ConnectBound(connects))]
    /\ cPc' = "gattConnect"
    /\ delivered' = <<>>
    /\ lastCall' = NoCall
    /\ UNCHANGED <<server, characteristic, onStatusChange, btAvailable,
                   gattConnected, charListeners, pending, connects, cStart,
                   applyInFlight, session, kaVars, ccVars, presetVars, codecVars, notifVars, storeVars>>

\* The user cancels the chooser: the catch block, lines 97-101.
RequestDeviceReject ==
    /\ cPc = "requestDevice"
    /\ ConnectRejects("DeviceNotSelected")
    /\ UNCHANGED <<device, server, characteristic, onStatusChange, btAvailable,
                   gattConnected, devListeners, charListeners, pending,
                   connects, cStart, applyInFlight, session, kaVars, ccVars, presetVars, codecVars, notifVars, storeVars>>

\* gatt.connect() resolves: lines 79-82, up to `await getPrimaryService`.
GattConnectResolve ==
    /\ cPc = "gattConnect"
    /\ gattConnected' = [gattConnected EXCEPT ![device] = TRUE]
    /\ server' = device
    /\ cPc' = "getService"
    /\ delivered' = <<>>
    /\ lastCall' = NoCall
    /\ UNCHANGED <<device, characteristic, onStatusChange, btAvailable,
                   devListeners, charListeners, pending, connects, cStart,
                   applyInFlight, session, kaVars, ccVars, presetVars, codecVars, notifVars, storeVars>>

GattConnectReject ==
    /\ cPc = "gattConnect"
    /\ ConnectRejects("GattConnectFailed")
    /\ UNCHANGED <<device, server, characteristic, onStatusChange, btAvailable,
                   gattConnected, devListeners, charListeners, pending,
                   connects, cStart, applyInFlight, session, kaVars, ccVars, presetVars, codecVars, notifVars, storeVars>>

\* getPrimaryService resolves (only on a link that is up): lines 82-85.
GetServiceResolve ==
    /\ cPc = "getService"
    /\ gattConnected[device]
    /\ cPc' = "getChar"
    /\ delivered' = <<>>
    /\ lastCall' = NoCall
    /\ UNCHANGED <<device, server, characteristic, onStatusChange, btAvailable,
                   gattConnected, devListeners, charListeners, pending,
                   connects, cStart, applyInFlight, session, kaVars, ccVars, presetVars, codecVars, notifVars, storeVars>>

\* getPrimaryService rejects: the catch block notifies and rethrows; it
\* neither disconnects the GATT server nor calls cleanup().
GetServiceReject ==
    /\ cPc = "getService"
    /\ ConnectRejects("ServiceMissing")
    /\ UNCHANGED <<device, server, characteristic, onStatusChange, btAvailable,
                   gattConnected, devListeners, charListeners, pending,
                   connects, cStart, applyInFlight, session, kaVars, ccVars, presetVars, codecVars, notifVars, storeVars>>

\* getCharacteristic resolves: lines 85-89, up to `await startNotifications`.
GetCharResolve ==
    /\ cPc = "getChar"
    /\ gattConnected[device]
    /\ characteristic' = device
    /\ cPc' = "startNotif"
    /\ delivered' = <<>>
    /\ lastCall' = NoCall
    /\ UNCHANGED <<device, server, onStatusChange, btAvailable, gattConnected,
                   devListeners, charListeners, pending, connects, cStart,
                   applyInFlight, session, kaVars, ccVars, presetVars, codecVars, notifVars, storeVars>>

GetCharReject ==
    /\ cPc = "getChar"
    /\ ConnectRejects("CharacteristicMissing")
    /\ UNCHANGED <<device, server, characteristic, onStatusChange, btAvailable,
                   gattConnected, devListeners, charListeners, pending,
                   connects, cStart, applyInFlight, session, kaVars, ccVars, presetVars, codecVars, notifVars, storeVars>>

\* The tail of connect(), lines 96-102: notifyStatusChange(true), resolve.
ConnectResolves ==
    /\ cPc' = "idle"
    /\ session' = "up"
    /\ delivered' = Notifications(1, TRUE, device, None)
    /\ lastCall' = Call("connect", "ok", FALSE, FALSE, cStart, device)

\* startNotifications resolves: lines 90-96.  `this.characteristic` is read
\* again after the await; if cleanup() ran meanwhile it is null and the
\* TypeError is caught by the inner try.
StartNotifResolve ==
    /\ cPc = "startNotif"
    /\ gattConnected[device]
    /\ charListeners' =
         IF characteristic # None
         THEN [charListeners EXCEPT ![characteristic] =
                   AddEventListener(@, ConnectBound(connects))]
         ELSE charListeners
    /\ notifications' = IF characteristic # None THEN "started" ELSE "failed"
    /\ ConnectResolves
    /\ UNCHANGED <<device, server, characteristic, onStatusChange, btAvailable,
                   gattConnected, devListeners, pending, connects, cStart,
                   applyInFlight, kaVars, ccVars, presetVars, codecVars, storeVars>>

\* startNotifications rejects: lines 92-96, the inner catch only warns.
StartNotifReject ==
    /\ cPc = "startNotif"
    /\ notifications' = "failed"
    /\ ConnectResolves
    /\ UNCHANGED <<device, server, characteristic, onStatusChange, btAvailable,
                   gattConnected, devListeners, charListeners, pending,
                   connects, cStart, applyInFlight, kaVars, ccVars, presetVars, codecVars, storeVars>>

\* ------------------------------------------------------------------------
\* BLEClient: the other operations

SetStatusChangeCallback ==
    /\ onStatusChange' = TRUE
    /\ delivered' = <<>>
    /\ lastCall' = NoCall
    /\ UNCHANGED <<device, server, characteristic, btAvailable, gattConnected,
                   devListeners, charListeners, pending, cPc, connects, cStart,
                   applyInFlight, session, kaVars, ccVars, presetVars, codecVars, notifVars, storeVars>>

\* disconnect().  gatt.disconnect() raises gattserverdisconnected on the
\* device before it returns, so each listener's onDisconnected() runs inside
\* the call; then disconnect() itself cleans up and notifies once more.
\* pre: a GATT link of this.device was up.
Disconnect ==
    LET live == device # None /\ gattConnected[device]
        n    == IF live THEN Cardinality(devListeners[device]) ELSE 0
    IN  /\ gattConnected' = IF live
                            THEN [gattConnected EXCEPT ![device] = FALSE]
                            ELSE gattConnected
        /\ pending' = IF live THEN BreakWrites(device) ELSE pending
        /\ Cleanup
        /\ delivered' = Notifications(n + 1, FALSE, device, None)
        /\ session' = "disconnected"
        /\ lastCall' = Call("disconnect", "ok", FALSE, NoSession, live,
                            characteristic)
        /\ UNCHANGED <<device, onStatusChange, btAvailable, devListeners, cPc,
                       connects, cStart, applyInFlight, kaVars, ccVars, presetVars, codecVars, notifVars, storeVars>>

\* The link to device d goes down by itself (power off, out of range): the
\* runtime marks the server disconnected and raises gattserverdisconnected
\* on d in one task.  pre: d is this.device.
LinkDrop(d) ==
    LET n == Cardinality(devListeners[d])
    IN  /\ gattConnected[d]
        /\ gattConnected' = [gattConnected EXCEPT ![d] = FALSE]
        /\ pending' = BreakWrites(d)
        /\ IF n > 0
           THEN /\ OnDisconnected(n)
                /\ session' = "dropped"
           ELSE /\ delivered' = <<>>
                /\ UNCHANGED <<characteristic, server, charListeners, session>>
        /\ lastCall' = Call("gattserverdisconnected",
                            IF n > 0 THEN "handled" ELSE "unheard",
                            FALSE, NoSession, d = device, d)
        /\ UNCHANGED <<device, onStatusChange, btAvailable, devListeners, cPc,
                       connects, cStart, applyInFlight, kaVars, ccVars, presetVars, codecVars, notifVars, storeVars>>

\* sendData(): `if (!this.characteristic) throw new Error('Not connected')`.
SendDataNotConnected == characteristic = None

\* sendData(): `await this.characteristic.writeValue(data)` is issued; a
\* write on a link that is already down is lost from the start.
SendDataWrite(kind) ==
    Append(pending, [kind |-> kind, dev |-> characteristic,
                     broken |-> ~gattConnected[characteristic]])

\* A faulty sendData() whose catch block logs and does not rethrow.
SendDataSwallows(outcome) == "ok"

\* sendData(): the catch block logs and rethrows, so the caller sees how
\* writeValue settled.
SendDataSettles(outcome) == outcome

\* How the runtime may settle an operation on device d's link: as
\* Disconnected (a NetworkError) once the link went down, else either way.
WriteOutcomes(broken) ==
    IF broken THEN {"Disconnected"} ELSE {"ok", "WriteFailed"}

\* readData(): the check, `await readValue()`, return or rethrow.  Nothing
\* of the client changes after the await, so the read is one step.
ReadData ==
    /\ \E outcome \in IF SendDataNotConnected THEN {"NotConnected"}
                      ELSE WriteOutcomes(~gattConnected[characteristic]) :
         lastCall' = Call("readData", outcome, ~SendDataNotConnected,
                          NoSession, FALSE, characteristic)
    /\ delivered' = <<>>
    /\ UNCHANGED <<device, server, characteristic, onStatusChange, btAvailable,
                   gattConnected, devListeners, charListeners, pending, cPc,
                   connects, cStart, applyInFlight, session, kaVars, ccVars, presetVars, codecVars, notifVars, storeVars>>

\* ------------------------------------------------------------------------
\* Device State Synchronizer: applySettings(next).  Its source is not part
\* of the repository snapshot; it is modelled from the specification (4.6):
\* reject with OperationInProgress while an apply is outstanding, otherwise
\* validate, encode and write through sendData.
\* pre: the settings write of an earlier applySettings was outstanding.
SettingsOutstanding ==
    \E i \in DOMAIN pending : pending[i].kind = "settings"

\* An applySettings without the gate.
ApplyGateAbsent == FALSE

\* The single-flight gate: a previous apply has not yet completed.
ApplyGateClosed == applyInFlight

ApplySettings ==
    /\ ApplyGateClosed \/ SendDataNotConnected \/ Len(pending) < MaxPending
    /\ IF ApplyGateClosed
       THEN /\ lastCall' = Call("applySettings", "OperationInProgress", FALSE,
                                NoSession, SettingsOutstanding, characteristic)
            /\ UNCHANGED <<pending, applyInFlight>>
       ELSE IF SendDataNotConnected
       THEN /\ lastCall' = Call("applySettings", "NotConnected", FALSE,
                                NoSession, SettingsOutstanding, characteristic)
            /\ UNCHANGED <<pending, applyInFlight>>
       ELSE /\ pending' = SendDataWrite("settings")
            /\ applyInFlight' = TRUE
            /\ lastCall' = Call("applySettings", "pending", TRUE,
                                NoSession, SettingsOutstanding, characteristic)
    /\ delivered' = <<>>
    /\ UNCHANGED <<device, server, characteristic, onStatusChange, btAvailable,
                   gattConnected, devListeners, charListeners, cPc, connects,
                   cStart, session, kaVars, ccVars, presetVars, codecVars, notifVars, storeVars>>

RemoveAt(seq, i) == SubSeq(seq, 1, i - 1) \o SubSeq(seq, i + 1, Len(seq))

\* A faulty catch block in sendPing() that stops the scheduler.
SendPingStopsOnFailure(outcome) ==
    /\ pingFailed' = (pingFailed \/ outcome # "ok")
    /\ IF outcome = "ok"
       THEN UNCHANGED <<isRunning, pingInterval, timers>>
       ELSE isRunning' = FALSE /\ pingInterval' = FALSE /\ timers' = 0

\* sendPing(): its try/catch (part_007 449-453) warns when the callback
\* rejects and returns either way.
SendPingCatch(outcome) ==
    /\ pingFailed' = (pingFailed \/ outcome # "ok")
    /\ UNCHANGED <<isRunning, pingInterval, timers>>

\* The runtime settles the i-th outstanding writeValue.  A settings write
\* resolves its applySettings; a ping's failure is caught by sendPing
\* (part_007 449-453).  pre: the link went down while the write was in flight.
WriteSettle(i, outcome) ==
    /\ i \in DOMAIN pending
    /\ outcome \in WriteOutcomes(pending[i].broken)
    /\ pending' = RemoveAt(pending, i)
    /\ IF pending[i].kind = "settings"
       THEN /\ applyInFlight' = FALSE
            /\ lastCall' = Call("applySettled", SendDataSettles(outcome),
                                FALSE, FALSE, pending[i].broken, pending[i].dev)
            /\ UNCHANGED kaSched
       ELSE /\ applyInFlight' = applyInFlight
            /\ lastCall' = Call("pingSettled", SendDataSettles(outcome),
                                FALSE, FALSE, pending[i].broken, pending[i].dev)
            /\ SendPingCatch(SendDataSettles(outcome))
    /\ delivered' = <<>>
    /\ UNCHANGED <<device, server, characteristic, onStatusChange, btAvailable,
                   gattConnected, devListeners, charListeners, cPc, connects,
                   cStart, session, kaRest, ccVars, presetVars, codecVars, notifVars, storeVars>>

\* ------------------------------------------------------------------------
\* KeepAliveService (part_007 324-476) and its ActivityTracker

\* config.pingInterval ?? 45000
PING_INTERVAL == 45000

\* config.activityTimeout ?? 120000
ACTIVITY_TIMEOUT == 120000

\* config.throttleDelay ?? 500
throttleDelay == 500

\* Date.now() when the service is constructed: some time of day, more than a
\* throttle window after the epoch.
T0 == 1000

\* The events throttledUpdate is registered for, and the window's focus
\* event, handled by handleFocus.
ThrottledSources ==
    {"mousemove", "click", "touchstart", "touchmove", "keydown", "scroll"}

Sources == ThrottledSources \cup {"focus"}

\* invoked: the tick called the ping callback; since: what
\* getTimeSinceActivity() returned; sinceRecord: milliseconds since start()
\* or updateActivity() last ran; resumed: the tick before was skipped for
\* inactivity; running: isRunning when the timer fired; inFlight: the pings
\* of earlier ticks that had not settled; afterFailure: a ping had failed.
TickRec(invoked, since, sinceRecord, resumed, running, inFlight,
        afterFailure) ==
    [invoked |-> invoked, since |-> since, sinceRecord |-> sinceRecord,
     resumed |-> resumed, running |-> running, inFlight |-> inFlight,
     afterFailure |-> afterFailure]

NoTick == TickRec(FALSE, -1, -1, FALSE, FALSE, 0, FALSE)

\* op: event | focus | timeout; updated: it ran updateActivity(); active:
\* the tracker was tracking; gap: milliseconds since updateActivity() ran
\* before, or -1.
TrkRec(op, updated, active, gap) ==
    [op |-> op, updated |-> updated, active |-> active, gap |-> gap]

NoTrk == TrkRec("none", FALSE, FALSE, -1)

\* Date.now() advances to the instant t.  A timer runs at or after the time
\* it is due, never before.
AdvanceClock(t) ==
    /\ t > wallNow
    /\ wallNow' = t
    /\ delivered' = <<>>
    /\ lastCall' = NoCall
    /\ UNCHANGED <<bleVarsButHistory, kaSched, sendPingCallback, tickDue,
                   kaTick, away, kaTracker, startRefused, ccVars, presetVars, codecVars, notifVars, storeVars>>

SetPingCallback ==
    /\ sendPingCallback' = TRUE
    /\ delivered' = <<>>
    /\ lastCall' = NoCall
    /\ UNCHANGED <<bleVarsButHistory, kaSched, wallNow, tickDue, kaTick, away,
                   kaTracker, startRefused, ccVars, presetVars, codecVars, notifVars, storeVars>>

\* A faulty updateActivity() that does not store the timestamp.
UpdateActivityForgets(op) ==
    /\ lastActivity' = lastActivity
    /\ lastRecordMs' = wallNow
    /\ prevUpdateMs' = wallNow
    /\ trk' = TrkRec(op, TRUE, isActive,
                     IF prevUpdateMs = -1 THEN -1 ELSE wallNow - prevUpdateMs)

\* ActivityTracker.updateActivity() (ActivityTracker.ts 118-121), called by
\* the callback op.
UpdateActivity(op) ==
    /\ lastActivity' = wallNow
    /\ lastRecordMs' = wallNow
    /\ prevUpdateMs' = wallNow
    /\ trk' = TrkRec(op, TRUE, isActive,
                     IF prevUpdateMs = -1 THEN -1 ELSE wallNow - prevUpdateMs)

\* A faulty throttle without trailing edge: a suppressed call arms nothing.
TrailingTimeoutAbsent(timeSinceLastCall) == thTimeout

\* When the timeout a suppressed call arms is due:
\* setTimeout(..., delay - timeSinceLastCall), the pending one cleared.
TrailingTimeout(timeSinceLastCall) ==
    wallNow + (throttleDelay - timeSinceLastCall)

\* The throttled listener (ActivityTracker.ts 22-39) runs on a mousemove,
\* click, touchstart, touchmove, keydown or scroll event; it is registered
\* while the tracker is tracking.
ThrottledUpdate ==
    LET timeSinceLastCall == wallNow - thLastCall
    IN  /\ \E src \in ThrottledSources : subs[src] > 0
        /\ lastEventMs' = wallNow
        /\ IF timeSinceLastCall >= throttleDelay
           THEN /\ thLastCall' = wallNow
                /\ UpdateActivity("event")
                /\ thTimeout' = thTimeout
           ELSE /\ thTimeout' = TrailingTimeout(timeSinceLastCall)
                /\ trk' = TrkRec("event", FALSE, isActive, -1)
                /\ UNCHANGED <<thLastCall, lastActivity, lastRecordMs,
                               prevUpdateMs>>
        /\ delivered' = <<>>
        /\ lastCall' = NoCall
        /\ UNCHANGED <<bleVarsButHistory, kaSched, sendPingCallback, wallNow,
                       tickDue, kaTick, away, isActive, subs, startRefused, ccVars, presetVars, codecVars, notifVars, storeVars>>

\* handleFocus (ActivityTracker.ts 111-113): the window gets the focus.
HandleFocus ==
    /\ subs["focus"] > 0
    /\ lastEventMs' = wallNow
    /\ UpdateActivity("focus")
    /\ delivered' = <<>>
    /\ lastCall' = NoCall
    /\ UNCHANGED <<bleVarsButHistory, kaSched, sendPingCallback, wallNow,
                   tickDue, kaTick, away, isActive, subs, thLastCall, thTimeout,
                   startRefused, ccVars, presetVars, codecVars, notifVars, storeVars>>

\* The timeout the throttle armed (ActivityTracker.ts 34-37) runs.
ThrottleTimeout ==
    /\ thTimeout # -1
    /\ wallNow >= thTimeout
    /\ thTimeout' = -1
    /\ thLastCall' = wallNow
    /\ UpdateActivity("timeout")
    /\ delivered' = <<>>
    /\ lastCall' = NoCall
    /\ UNCHANGED <<bleVarsButHistory, kaSched, sendPingCallback, wallNow,
                   tickDue, kaTick, away, isActive, subs, lastEventMs, startRefused,
                   ccVars, presetVars, codecVars, notifVars, storeVars>>

\* document.addEventListener / window.addEventListener: a listener that is
\* already registered for the source is not registered again.
AddListeners(s) == [src \in Sources |-> IF s[src] = 0 THEN 1 ELSE s[src]]

\* A faulty stop() that leaves the focus listener on the window.
RemoveListenersButFocus(s) ==
    [src \in Sources |-> IF src = "focus" THEN s[src] ELSE 0]

\* removeEventListener for each source
RemoveListeners(s) == [src \in Sources |-> 0]

\* ActivityTracker.start() (ActivityTracker.ts 62-86)
TrackerStart ==
    IF isActive
    THEN UNCHANGED <<isActive, subs, lastActivity, lastRecordMs>>
    ELSE /\ isActive' = TRUE
         /\ subs' = AddListeners(subs)
         /\ lastActivity' = wallNow
         /\ lastRecordMs' = wallNow

\* ActivityTracker.stop() (ActivityTracker.ts 91-106): the listeners are
\* removed; the throttle's timeout is not touched.
TrackerStop ==
    IF ~isActive
    THEN UNCHANGED <<isActive, subs, lastActivity, lastRecordMs>>
    ELSE /\ isActive' = FALSE
         /\ subs' = RemoveListeners(subs)
         /\ UNCHANGED <<lastActivity, lastRecordMs>>

\* The application calls ActivityTracker.start() itself.
ActivityStart ==
    /\ TrackerStart
    /\ lastCall' = Call("trackerStart",
                        IF isActive THEN "alreadyTracking" ELSE "started",
                        FALSE, FALSE, FALSE, None)
    /\ delivered' = <<>>
    /\ UNCHANGED <<bleVarsButHistory, kaSched, sendPingCallback, wallNow,
                   tickDue, kaTick, away, thLastCall, thTimeout, trk,
                   prevUpdateMs, lastEventMs, startRefused, ccVars, presetVars, codecVars, notifVars, storeVars>>

\* The application calls ActivityTracker.stop() itself.
ActivityStop ==
    /\ TrackerStop
    /\ lastCall' = Call("trackerStop",
                        IF isActive THEN "stopped" ELSE "notTracking",
                        FALSE, FALSE, FALSE, None)
    /\ delivered' = <<>>
    /\ UNCHANGED <<bleVarsButHistory, kaSched, sendPingCallback, wallNow,
                   tickDue, kaTick, away, thLastCall, thTimeout, trk,
                   prevUpdateMs, lastEventMs, startRefused, ccVars, presetVars, codecVars, notifVars, storeVars>>

\* A startKeepAlive() without the callback check.
CallbackNotChecked == FALSE

\* startKeepAlive(): `if (!this.sendPingCallback)`
NoPingCallback == ~sendPingCallback

\* setInterval(() => this.checkAndSendPing(), this.PING_INTERVAL)
SetInterval ==
    /\ pingInterval' = TRUE
    /\ timers' = timers + 1
    /\ tickDue' = wallNow + PING_INTERVAL

\* A startKeepAlive() without the running check.
RunningNotChecked == FALSE

\* startKeepAlive(): `if (this.isRunning)`
AlreadyRunning == isRunning

\* startKeepAlive().  pre: an earlier call found no ping callback.
StartKeepAlive ==
    /\ IF AlreadyRunning
       THEN /\ lastCall' = Call("startKeepAlive", "alreadyRunning", FALSE,
                                FALSE, FALSE, None)
            /\ UNCHANGED <<kaSched, tickDue, isActive, subs, lastActivity,
                           lastRecordMs, away, startRefused>>
       ELSE IF NoPingCallback
       THEN /\ lastCall' = Call("startKeepAlive", "noCallback", FALSE,
                                FALSE, FALSE, None)
            /\ startRefused' = TRUE
            /\ UNCHANGED <<kaSched, tickDue, isActive, subs, lastActivity,
                           lastRecordMs, away>>
       ELSE /\ isRunning' = TRUE
            /\ TrackerStart
            /\ SetInterval
            /\ away' = FALSE
            /\ lastCall' = Call("startKeepAlive", "started", FALSE,
                                FALSE, startRefused, None)
            /\ UNCHANGED <<pingFailed, startRefused>>
    /\ delivered' = <<>>
    /\ UNCHANGED <<bleVarsButHistory, sendPingCallback, wallNow, kaTick,
                   thLastCall, thTimeout, trk, prevUpdateMs, lastEventMs,
                   ccVars, presetVars, codecVars, notifVars, storeVars>>

\* A stopKeepAlive() that forgets clearInterval.
IntervalNotCleared == UNCHANGED <<pingInterval, tickDue, timers>>

\* stopKeepAlive(): clearInterval(this.pingInterval); this.pingInterval = null
ClearInterval ==
    /\ pingInterval' = FALSE
    /\ timers' = timers - 1
    /\ tickDue' = -1

\* stopKeepAlive()
StopKeepAlive ==
    /\ IF ~isRunning
       THEN /\ lastCall' = Call("stopKeepAlive", "notRunning", FALSE,
                                FALSE, FALSE, None)
            /\ UNCHANGED <<kaSched, tickDue, isActive, subs, lastActivity,
                           lastRecordMs>>
       ELSE /\ isRunning' = FALSE
            /\ IF pingInterval THEN ClearInterval
               ELSE UNCHANGED <<pingInterval, tickDue, timers>>
            /\ TrackerStop
            /\ UNCHANGED pingFailed
            /\ lastCall' = Call("stopKeepAlive", "stopped", FALSE,
                                FALSE, FALSE, None)
    /\ delivered' = <<>>
    /\ UNCHANGED <<bleVarsButHistory, sendPingCallback, wallNow, kaTick, away,
                   thLastCall, thTimeout, trk, prevUpdateMs, lastEventMs,
                   startRefused, ccVars, presetVars, codecVars, notifVars, storeVars>>

\* ActivityTracker.getTimeSinceActivity()
GetTimeSinceActivity == wallNow - lastActivity

\* A faulty comparison, `<=` for `<`.
ShouldSendPingInclusive == GetTimeSinceActivity <= ACTIVITY_TIMEOUT

\* shouldSendPing()
ShouldSendPing == GetTimeSinceActivity < ACTIVITY_TIMEOUT

\* The pings whose write has not settled.
PingWrites == {i \in DOMAIN pending : pending[i].kind = "ping"}

\* The interval timer fires: checkAndSendPing() and, through it, sendPing()
\* up to `await this.sendPingCallback()`.  The callback the application
\* installs is not part of the repository snapshot; following the
\* specification (2, 5) it writes a ping frame with bleClient.sendData.
\* pre: a write was outstanding on the data characteristic.
KeepAliveTick ==
    /\ pingInterval
    /\ wallNow >= tickDue
    /\ ~ShouldSendPing \/ ~sendPingCallback \/ SendDataNotConnected
         \/ Len(pending) < MaxPending
    /\ tickDue' = wallNow + PING_INTERVAL
    /\ kaTick' = TickRec(ShouldSendPing /\ sendPingCallback,
                         GetTimeSinceActivity, wallNow - lastRecordMs, away,
                         isRunning, Cardinality(PingWrites), pingFailed)
    /\ away' = ~ShouldSendPing
    /\ IF ~ShouldSendPing
       THEN /\ lastCall' = Call("tick", "skipped", FALSE, NoSession,
                                pending # <<>>, characteristic)
            /\ pending' = pending
            /\ UNCHANGED kaSched
       ELSE IF ~sendPingCallback
       THEN /\ lastCall' = Call("tick", "noCallback", FALSE, NoSession,
                                pending # <<>>, characteristic)
            /\ pending' = pending
            /\ UNCHANGED kaSched
       ELSE IF SendDataNotConnected
       THEN /\ lastCall' = Call("tick", "NotConnected", FALSE, NoSession,
                                pending # <<>>, characteristic)
            /\ pending' = pending
            /\ SendPingCatch("NotConnected")
       ELSE /\ lastCall' = Call("tick", "pending", TRUE, NoSession,
                                pending # <<>>, characteristic)
            /\ pending' = SendDataWrite("ping")
            /\ UNCHANGED kaSched
    /\ delivered' = <<>>
    /\ UNCHANGED <<device, server, characteristic, onStatusChange, btAvailable,
                   gattConnected, devListeners, charListeners, cPc, connects,
                   cStart, applyInFlight, session, sendPingCallback, wallNow,
                   kaTracker, startRefused, ccVars, presetVars, codecVars, notifVars, storeVars>>

\* ------------------------------------------------------------------------
\* midiBle, the rate-limited control channel (part_007 483-554)

\* state.minIntervalMs
minIntervalMs == 8

\* The clock runs from 0 to MaxTime milliseconds.
MaxTime == 18

\* outcome: dropped | NotConnected | written | writeFailed; connected: the
\* channel had a characteristic; gap: milliseconds since the previous call
\* that issued a write, or -1; steady: the channel stayed connected since
\* that call; gapOk: milliseconds since the last write that succeeded, or -1;
\* afterDrop: a call was dropped since the previous call that issued a write.
Send(outcome, connected, gap, wasSteady, gapOk, afterDrop) ==
    [outcome |-> outcome, connected |-> connected, gap |-> gap,
     steady |-> wasSteady, gapOk |-> gapOk, afterDrop |-> afterDrop]

NoSend == Send("none", FALSE, -1, FALSE, -1, FALSE)

\* The controller values the interface sends (0..127).
CCValues == {0, 127}

Since(t) == IF t = -1 THEN -1 ELSE perfNow - t

\* performance.now() advances; ccCall describes a call only in the state the
\* call leaves.
Tick ==
    /\ perfNow < MaxTime
    /\ perfNow' = perfNow + 1
    /\ ccCall' = NoSend
    /\ UNCHANGED <<mbDevice, mbServer, mbCharacteristic, lastSendMs, mbGatt,
                   mbListeners, mbPc, mbConnects, prevWriteMs, steady,
                   lastOkMs, dropsSince, lastValue, sentValue, bleVars,
                   kaVars, presetVars, codecVars, notifVars, storeVars>>

\* A faulty comparison, `<=` for `<`.
RateLimitedInclusive(now) == now - lastSendMs <= minIntervalMs

\* `now - state.lastSendMs < state.minIntervalMs`
RateLimited(now) == now - lastSendMs < minIntervalMs

\* How writeValueWithoutResponse may settle on device d's link.
ControlWriteOutcomes(d) ==
    IF mbGatt[d] THEN {"written", "writeFailed"} ELSE {"writeFailed"}

\* A faulty early return that stamps the call before it returns.
WindowRestarted(now) == now

\* state.lastSendMs after a rate-limited call: the early return comes before
\* `state.lastSendMs = now`.
WindowAfterDrop(now) == lastSendMs

\* sendControlChange(cc, value) for one controller.  Nothing of the module
\* state changes after the await, so the call and the settling of its write
\* are one step.
SendControlChange(value) ==
    LET now == perfNow
        call(outcome) == Send(outcome, mbCharacteristic # None,
                              Since(prevWriteMs), steady, Since(lastOkMs),
                              dropsSince)
    IN  /\ lastValue' = value
        /\ IF RateLimited(now)
           THEN /\ ccCall' = call("dropped")
                /\ lastSendMs' = WindowAfterDrop(now)
                /\ dropsSince' = TRUE
                /\ UNCHANGED <<prevWriteMs, steady, lastOkMs, sentValue>>
           ELSE /\ lastSendMs' = now
                /\ IF mbCharacteristic = None
                   THEN /\ ccCall' = call("NotConnected")
                        /\ UNCHANGED <<prevWriteMs, steady, lastOkMs,
                                       dropsSince, sentValue>>
                   ELSE \E outcome \in ControlWriteOutcomes(mbCharacteristic) :
                          /\ ccCall' = call(outcome)
                          /\ prevWriteMs' = now
                          /\ steady' = TRUE
                          /\ dropsSince' = FALSE
                          /\ sentValue' = value
                          /\ lastOkMs' = IF outcome = "written" THEN now
                                         ELSE lastOkMs
        /\ UNCHANGED <<mbDevice, mbServer, mbCharacteristic, perfNow, mbGatt,
                       mbListeners, mbPc, mbConnects, bleVars, kaVars, presetVars, codecVars, notifVars, storeVars>>

\* midiBle.connect() up to `await requestDevice`; without Web Bluetooth it
\* throws at once.
MbConnectCall ==
    /\ mbPc.at = "idle"
    /\ mbConnects < MaxConnects
    /\ mbConnects' = mbConnects + 1
    /\ mbPc' = IF btAvailable THEN [at |-> "requestDevice", dev |-> None]
               ELSE mbPc
    /\ UNCHANGED <<mbDevice, mbServer, mbCharacteristic, lastSendMs, perfNow,
                   mbGatt, mbListeners, prevWriteMs, steady, lastOkMs, ccHistory,
                   bleVars, kaVars, presetVars, codecVars, notifVars, storeVars>>

\* The user picks device d and gatt.connect() resolves: lines 509-519.
MbGattConnectResolve(d) ==
    /\ mbPc.at = "requestDevice"
    /\ mbGatt' = [mbGatt EXCEPT ![d] = TRUE]
    /\ mbPc' = [at |-> "discover", dev |-> d]
    /\ UNCHANGED <<mbDevice, mbServer, mbCharacteristic, lastSendMs, perfNow,
                   mbListeners, mbConnects, prevWriteMs, steady, lastOkMs,
                   ccHistory, bleVars, kaVars, presetVars, codecVars, notifVars, storeVars>>

\* Service and characteristic are found: lines 519-530.
MbConnectResolve ==
    /\ mbPc.at = "discover"
    /\ mbGatt[mbPc.dev]
    /\ mbDevice' = mbPc.dev
    /\ mbServer' = mbPc.dev
    /\ mbCharacteristic' = mbPc.dev
    /\ mbListeners' = [mbListeners EXCEPT ![mbPc.dev] = @ + 1]
    /\ mbPc' = [at |-> "idle", dev |-> None]
    /\ UNCHANGED <<lastSendMs, perfNow, mbGatt, mbConnects, prevWriteMs,
                   steady, lastOkMs, ccHistory, bleVars, kaVars, presetVars, codecVars, notifVars, storeVars>>

\* Any of the awaits rejects: connect() throws and leaves the state as is.
MbConnectReject ==
    /\ mbPc.at # "idle"
    /\ mbPc' = [at |-> "idle", dev |-> None]
    /\ UNCHANGED <<mbDevice, mbServer, mbCharacteristic, lastSendMs, perfNow,
                   mbGatt, mbListeners, mbConnects, prevWriteMs, steady,
                   lastOkMs, ccHistory, bleVars, kaVars, presetVars, codecVars, notifVars, storeVars>>

\* The listener midiBle.connect() registers (lines 526-530), and the three
\* assignments of disconnect().
ClearControlState ==
    /\ mbDevice' = None
    /\ mbServer' = None
    /\ mbCharacteristic' = None
    /\ steady' = FALSE

\* midiBle.disconnect()
MbDisconnect ==
    /\ mbGatt' = IF mbServer # None
                 THEN [mbGatt EXCEPT ![mbServer] = FALSE]
                 ELSE mbGatt
    /\ ClearControlState
    /\ UNCHANGED <<lastSendMs, perfNow, mbListeners, mbPc, mbConnects,
                   prevWriteMs, lastOkMs, ccHistory, bleVars, kaVars, presetVars, codecVars, notifVars, storeVars>>

\* The link to device d goes down by itself.
MbLinkDrop(d) ==
    /\ mbGatt[d]
    /\ mbGatt' = [mbGatt EXCEPT ![d] = FALSE]
    /\ IF mbListeners[d] > 0
       THEN ClearControlState
       ELSE UNCHANGED <<mbDevice, mbServer, mbCharacteristic, steady>>
    /\ UNCHANGED <<lastSendMs, perfNow, mbListeners, mbPc, mbConnects,
                   prevWriteMs, lastOkMs, ccHistory, bleVars, kaVars, presetVars, codecVars, notifVars, storeVars>>

\* ------------------------------------------------------------------------
\* The preset codec (bleClient.ts 241-337).  A string is the sequence of its
\* UTF-16 code units, a Uint8Array the sequence of its bytes.

\* DEVICE_PRESET.MAX_SLOTS
MAX_SLOTS == 8

\* DEVICE_PRESET.NAME_MAX_LENGTH
NAME_MAX_LENGTH == 32

\* new Uint8Array(33) in encodePresetSave
SAVE_FRAME_SIZE == 33

\* METADATA_SIZE in decodePresetList
METADATA_SIZE == 40

\* DEVICE_PRESET.EMPTY_SLOT_NAME, '[Empty]'
EMPTY_SLOT_NAME == <<91, 69, 109, 112, 116, 121, 93>>

\* U+FFFD, what the encoder and the decoder put for what they cannot convert.
REPLACEMENT == 65533

Min(a, b) == IF a < b THEN a ELSE b

\* new Uint8Array(n): n zero bytes.
Zeros(n) == [i \in 1..n |-> 0]

\* What a Uint8Array element holds after `buffer[i] = x` for an integer x.
ToUint8(x) == x % 256

\* String.prototype.slice(from, to) for 0 <= from <= to, on code units.
Slice(str, from, to) == SubSeq(str, from + 1, Min(to, Len(str)))

\* The code units of the character with code point cp.
CodeUnits(cp) ==
    IF cp < 65536 THEN <<cp>>
    ELSE <<55296 + ((cp - 65536) \div 1024), 56320 + ((cp - 65536) % 1024)>>

IsHighSurrogate(u) == u >= 55296 /\ u <= 56319

IsLowSurrogate(u) == u >= 56320 /\ u <= 57343

\* The UTF-8 bytes of one code point.
Utf8(cp) ==
    IF cp < 128 THEN <<cp>>
    ELSE IF cp < 2048 THEN <<192 + (cp \div 64), 128 + (cp % 64)>>
    ELSE IF cp < 65536
    THEN <<224 + (cp \div 4096), 128 + ((cp \div 64) % 64), 128 + (cp % 64)>>
    ELSE <<240 + (cp \div 262144), 128 + ((cp \div 4096) % 64),
           128 + ((cp \div 64) % 64), 128 + (cp % 64)>>

\* new TextEncoder().encode(str): a surrogate pair is one code point, a
\* surrogate without its partner is encoded as U+FFFD.
RECURSIVE TextEncode(_)
TextEncode(str) ==
    IF str = <<>> THEN <<>>
    ELSE IF Len(str) >= 2 /\ IsHighSurrogate(str[1]) /\ IsLowSurrogate(str[2])
    THEN Utf8(65536 + (str[1] - 55296) * 1024 + (str[2] - 56320))
           \o TextEncode(SubSeq(str, 3, Len(str)))
    ELSE IF IsHighSurrogate(str[1]) \/ IsLowSurrogate(str[1])
    THEN Utf8(REPLACEMENT) \o TextEncode(Tail(str))
    ELSE Utf8(str[1]) \o TextEncode(Tail(str))

IsContinuation(bytes, i) ==
    i <= Len(bytes) /\ bytes[i] >= 128 /\ bytes[i] <= 191

\* new TextDecoder().decode(bytes): well-formed sequences of one to four
\* bytes give their code point, any other byte gives U+FFFD.
RECURSIVE TextDecode(_)
TextDecode(bytes) ==
    IF bytes = <<>> THEN <<>>
    ELSE LET b == bytes[1]
             rest(n) == SubSeq(bytes, n + 1, Len(bytes))
         IN  IF b < 128 THEN <<b>> \o TextDecode(rest(1))
             ELSE IF b >= 194 /\ b <= 223 /\ IsContinuation(bytes, 2)
             THEN CodeUnits((b - 192) * 64 + (bytes[2] - 128))
                    \o TextDecode(rest(2))
             ELSE IF b >= 224 /\ b <= 239 /\ IsContinuation(bytes, 2)
                       /\ IsContinuation(bytes, 3)
             THEN CodeUnits((b - 224) * 4096 + (bytes[2] - 128) * 64
                              + (bytes[3] - 128))
                    \o TextDecode(rest(3))
             ELSE IF b >= 240 /\ b <= 244 /\ IsContinuation(bytes, 2)
                       /\ IsContinuation(bytes, 3) /\ IsContinuation(bytes, 4)
             THEN CodeUnits((b - 240) * 262144 + (bytes[2] - 128) * 4096
                              + (bytes[3] - 128) * 64 + (bytes[4] - 128))
                    \o TextDecode(rest(4))
             ELSE <<REPLACEMENT>> \o TextDecode(rest(1))

\* What a codec function returns or throws.
Frame(bytes) == [ok |-> TRUE, error |-> "none", bytes |-> bytes]

Throws(error) == [ok |-> FALSE, error |-> error, bytes |-> <<>>]

\* A faulty slot check, `>` for `>=`.
SlotInvalidInclusive(slot) == slot < 0 \/ slot > MAX_SLOTS

\* `if (slot < 0 || slot >= DEVICE_PRESET.MAX_SLOTS)`
SlotInvalid(slot) == slot < 0 \/ slot >= MAX_SLOTS

\* buffer.set(bytes, offset): a RangeError when bytes do not fit.
BufferSet(buffer, bytes, offset) ==
    IF offset + Len(bytes) > Len(buffer) THEN Throws("RangeError")
    ELSE Frame([i \in 1..Len(buffer) |->
                   IF i > offset /\ i <= offset + Len(bytes)
                   THEN bytes[i - offset] ELSE buffer[i]])

\* encodePresetSave(slot, name) (bleClient.ts 265-278)
EncodePresetSave(slot, name) ==
    IF SlotInvalid(slot) THEN Throws("InvalidSlot")
    ELSE LET buffer == [Zeros(SAVE_FRAME_SIZE) EXCEPT ![1] = ToUint8(slot)]
             nameBytes == TextEncode(Slice(name, 0, NAME_MAX_LENGTH))
         IN  BufferSet(buffer, nameBytes, 1)

\* encodePresetLoad(slot) (bleClient.ts 284-290)
EncodePresetLoad(slot) ==
    IF SlotInvalid(slot) THEN Throws("InvalidSlot")
    ELSE Frame(<<ToUint8(slot)>>)

\* encodePresetDelete(slot) (bleClient.ts 296-302)
EncodePresetDelete(slot) ==
    IF SlotInvalid(slot) THEN Throws("InvalidSlot")
    ELSE Frame(<<ToUint8(slot)>>)

\* A DataView: a window into buffer that begins byteOffset bytes in.
DataView(buffer, byteOffset) == [buffer |-> buffer, byteOffset |-> byteOffset]

\* data.getUint8(at)
GetUint8(data, at) == data.buffer[data.byteOffset + at + 1]

\* data.getUint32(at, true): little-endian.  The number is hi * 65536 + lo;
\* it is kept as its two halves, each within the checker's integers.
GetUint32LE(data, at) ==
    [lo |-> GetUint8(data, at) + 256 * GetUint8(data, at + 1),
     hi |-> GetUint8(data, at + 2) + 256 * GetUint8(data, at + 3)]

\* nameBytes.indexOf(0), counted from 0; -1 when there is no zero byte.
IndexOfZero(bytes) ==
    IF \E i \in 1..Len(bytes) : bytes[i] = 0
    THEN (CHOOSE i \in 1..Len(bytes) :
              bytes[i] = 0 /\ \A j \in 1..(i - 1) : bytes[j] # 0) - 1
    ELSE -1

\* A decoder that leaves an empty name empty.
NameOrPlaceholderAbsent(name) == name

\* `name || DEVICE_PRESET.EMPTY_SLOT_NAME`
NameOrPlaceholder(name) == IF name = <<>> THEN EMPTY_SLOT_NAME ELSE name

\* One turn of the loop of decodePresetList (bleClient.ts 312-334).
\* `new Uint8Array(data.buffer, offset, 32)` counts offset from the start of
\* the underlying buffer, the DataView's getters count from byteOffset.
DecodePreset(data, slot) ==
    LET offset == slot * METADATA_SIZE
        nameBytes == SubSeq(data.buffer, offset + 1, offset + 32)
        nullIndex == IndexOfZero(nameBytes)
        name == TextDecode(IF nullIndex >= 0
                           THEN SubSeq(nameBytes, 1, nullIndex)
                           ELSE nameBytes)
    IN  [slot |-> slot,
         name |-> NameOrPlaceholder(name),
         timestamp |-> GetUint32LE(data, offset + 32),
         isValid |-> (GetUint8(data, offset + 36) = 1)]

\* decodePresetList(data) (bleClient.ts 308-337): the presets, slot 0 first.
DecodePresetList(data) == [i \in 1..MAX_SLOTS |-> DecodePreset(data, i - 1)]

\* ------------------------------------------------------------------------
\* The settings codec (THEME_IMPLEMENTATION.md).  kb1Protocol.ts is not part
\* of the repository snapshot: the document gives the sub-models, the
\* validation and the data flow; that encodeSettings fails on settings that
\* do not validate, and the layout of its frame, follow the specification
\* (4.2).

\* The sub-models of DeviceSettings that have a CC number, in frame order.
CCSections == <<"lever1", "leverPush1", "lever2", "leverPush2", "touch">>

\* createDefaultSettings(): the CC numbers of the defaults.
DefaultSettings ==
    [sec \in {CCSections[i] : i \in DOMAIN CCSections} |->
        CASE sec = "lever2" -> 4
          [] sec = "leverPush2" -> 5
          [] OTHER -> 1]

\* The CC numbers tried: around both ends of the range, and the sentinel.
CCInputs == {0 - 2, 0 - 1, 0, 64, 127, 128}

\* The settings tried: the defaults with one CC number replaced.
SettingsInputs ==
    {[DefaultSettings EXCEPT ![sec] = cc] :
        sec \in DOMAIN DefaultSettings, cc \in CCInputs}

\* A faulty check that takes 128 for a CC number.
IsValidCCInclusive(cc) == cc = 0 - 1 \/ (cc >= 0 /\ cc <= 128)

\* isValidCC: "-1 for "Off" or 0-127"
IsValidCC(cc) == cc = 0 - 1 \/ (cc >= 0 /\ cc <= 127)

\* validateSettings(settings): every section is there and every CC number
\* is valid.
ValidateSettings(settings) ==
    \A i \in DOMAIN CCSections :
        /\ CCSections[i] \in DOMAIN settings
        /\ IsValidCC(settings[CCSections[i]])

\* encodeSettings(settings): validation first; then one frame, the CC number
\* of each section as one byte (-1 as 255).
EncodeSettings(settings) ==
    IF ~ValidateSettings(settings) THEN Throws("ValidationError")
    ELSE Frame([i \in DOMAIN CCSections |-> ToUint8(settings[CCSections[i]])])

\* settings: the argument of the last encodeSettings; out: what it returned
\* or threw.
StCall(settings, out) == [settings |-> settings, out |-> out]

NoStCall == StCall(DefaultSettings, Throws("none"))

\* ------------------------------------------------------------------------
\* Calls of the codec functions, with the arguments the claims are about

\* The longest name tried, in characters.
MaxNameLen == 33

\* "A", "é", "€" and an emoji: one, two, three and four bytes in UTF-8; the
\* emoji is two code units.
NameChars == {65, 233, 8364, 128512}

RECURSIVE Repeat(_, _)
Repeat(str, n) == IF n = 0 THEN <<>> ELSE str \o Repeat(str, n - 1)

NameLengths == {0, 1, 10, 11, 16, 17} \cup ((MaxNameLen - 2)..MaxNameLen)

\* n times one character, then nothing or one character of another width.
Names ==
    {Repeat(CodeUnits(c), n) \o tail :
        c \in NameChars, n \in NameLengths,
        tail \in {<<>>, CodeUnits(233), CodeUnits(128512)}}

SlotInputs == (0 - 2)..(MAX_SLOTS + 1)

\* The name field of a metadata record: the bytes, zero-padded to 32.
NameField(bytes) == bytes \o Zeros(NAME_MAX_LENGTH - Len(bytes))

NameFields ==
    {NameField(<<>>),
     NameField(<<75, 66, 49>>),
     NameField(Utf8(233) \o <<65>>),
     Repeat(<<65>>, NAME_MAX_LENGTH),
     Repeat(Utf8(233), 16),
     <<0>> \o Repeat(<<66>>, NAME_MAX_LENGTH - 1)}

\* A metadata record as the firmware lays it out: name, timestamp
\* (little-endian), isValid, three bytes of padding.
MetaRecords ==
    {name \o ts \o <<valid, 0, 0, 0>> :
        name \in NameFields,
        ts \in {<<0, 0, 0, 0>>, <<1, 2, 3, 4>>, <<255, 255, 255, 255>>},
        valid \in {0, 1, 2}}

EmptyRecord == Zeros(METADATA_SIZE)

\* A list frame: empty records, but for record r in slot at.
ListFrame(r, at) ==
    Repeat(EmptyRecord, at) \o r \o Repeat(EmptyRecord, MAX_SLOTS - 1 - at)

\* The DataViews tried: the frame alone in its buffer, or behind other bytes.
ListViews ==
    {DataView(Repeat(<<7>>, off) \o ListFrame(r, at), off) :
        r \in MetaRecords, at \in 0..(MAX_SLOTS - 1),
        off \in {0, METADATA_SIZE}}

NoData == DataView(<<>>, 0)

\* fn: the function; slot, name, data: its arguments; out: the frame it
\* returned or the error it threw; list: the presets it returned.
CdCall(fn, slot, name, data, out, list) ==
    [fn |-> fn, slot |-> slot, name |-> name, data |-> data, out |-> out,
     list |-> list]

NoCdCall == CdCall("none", 0, <<>>, NoData, Throws("none"), <<>>)

\* Each behaviour makes one call of one codec function, with arguments drawn
\* from the sets above.

EncodePresetSaveCall ==
    /\ cdCall = NoCdCall
    /\ \E slot \in SlotInputs, name \in Names :
         cdCall' = CdCall("encodePresetSave", slot, name, NoData,
                          EncodePresetSave(slot, name), <<>>)
    /\ UNCHANGED <<bleVars, kaVars, ccVars, presetVars, notifVars, stCall, storeVars>>

EncodePresetLoadCall ==
    /\ cdCall = NoCdCall
    /\ \E slot \in SlotInputs :
         cdCall' = CdCall("encodePresetLoad", slot, <<>>, NoData,
                          EncodePresetLoad(slot), <<>>)
    /\ UNCHANGED <<bleVars, kaVars, ccVars, presetVars, notifVars, stCall, storeVars>>

EncodePresetDeleteCall ==
    /\ cdCall = NoCdCall
    /\ \E slot \in SlotInputs :
         cdCall' = CdCall("encodePresetDelete", slot, <<>>, NoData,
                          EncodePresetDelete(slot), <<>>)
    /\ UNCHANGED <<bleVars, kaVars, ccVars, presetVars, notifVars, stCall, storeVars>>

DecodePresetListCall ==
    /\ cdCall = NoCdCall
    /\ \E data \in ListViews :
         cdCall' = CdCall("decodePresetList", 0, <<>>, data, Frame(<<>>),
                          DecodePresetList(data))
    /\ UNCHANGED <<bleVars, kaVars, ccVars, presetVars, notifVars, stCall, storeVars>>

InitCodec == cdCall = NoCdCall /\ stCall = NoStCall

\* ------------------------------------------------------------------------
\* PresetStore: the presets in localStorage (presets.ts 21-185)

\* Elements of an imported array.
MaxEntries == 3

\* Preset ids createPreset may generate.
MaxPresets == 4

\* What JSON.parse can give for one element of the array: an object with a
\* name and settings, an object whose name or whose settings is missing or
\* falsy, a primitive other than null (reading a property of it gives
\* undefined), and null (reading a property of it throws a TypeError).
Entries == {"preset", "noName", "noSettings", "primitive", "null"}

\* The inputs of importAllPresets: text JSON.parse rejects, JSON that
\* for..of cannot iterate (an object, a number, null), and arrays.  A JSON
\* string iterates as an array of primitives.
ImportInputs ==
    {[kind |-> k, entries |-> <<>>] : k \in {"notJson", "notIterable"}}
      \cup {[kind |-> "array", entries |-> e] :
              e \in UNION {[1..n -> Entries] : n \in 0..MaxEntries}}

\* localStorage as the store's methods see it.
Storage == [ids |-> presetIds, items |-> presetItems, issued |-> idsIssued]

\* savePreset(preset): the item is written, and the id appended to the
\* list unless the list includes it.
SavePreset(store, id) ==
    [store EXCEPT !.items = @ \cup {id},
                  !.ids = IF \E i \in DOMAIN @ : @[i] = id
                          THEN @ ELSE Append(@, id)]

\* createPreset(name, settings): an id from Date.now() and Math.random(),
\* taken to be new each time, then savePreset.
CreatePreset(store) ==
    SavePreset([store EXCEPT !.issued = @ + 1], store.issued + 1)

\* The test of line 175, on an element that is not null.
EntryAccepted(entry) == entry = "preset"

\* The for..of loop of importAllPresets from element i on: the store, the
\* count, and whether an element threw.
RECURSIVE ImportLoop(_, _, _)
ImportLoop(entries, i, run) ==
    IF i > Len(entries) THEN run
    ELSE IF entries[i] = "null" THEN [run EXCEPT !.threw = TRUE]
    ELSE IF EntryAccepted(entries[i])
    THEN ImportLoop(entries, i + 1,
                    [run EXCEPT !.store = CreatePreset(@), !.count = @ + 1])
    ELSE ImportLoop(entries, i + 1, run)

ImCall(json, result, added) ==
    [called |-> TRUE, json |-> json, result |-> result, added |-> added]

NoImCall ==
    [called |-> FALSE, json |-> [kind |-> "notJson", entries |-> <<>>],
     result |-> 0, added |-> 0]

\* importAllPresets(json): the catch returns 0 whatever the loop has done.
ImportAllPresets(json) ==
    LET start == [store |-> Storage, count |-> 0, threw |-> FALSE]
        run == IF json.kind = "array"
               THEN ImportLoop(json.entries, 1, start)
               ELSE [start EXCEPT !.threw = TRUE]
    IN  /\ idsIssued + Len(json.entries) <= MaxPresets
        /\ presetIds' = run.store.ids
        /\ presetItems' = run.store.items
        /\ idsIssued' = run.store.issued
        /\ imCall' = ImCall(json, IF run.threw THEN 0 ELSE run.count,
                            Len(run.store.ids) - Len(presetIds))
        /\ UNCHANGED <<bleVars, kaVars, ccVars, presetVars, codecVars,
                       notifVars>>

\* createPreset called by the editor when the user saves a preset.
CreatePresetCall ==
    /\ idsIssued < MaxPresets
    /\ presetIds' = CreatePreset(Storage).ids
    /\ presetItems' = CreatePreset(Storage).items
    /\ idsIssued' = CreatePreset(Storage).issued
    /\ imCall' = NoImCall
    /\ UNCHANGED <<bleVars, kaVars, ccVars, presetVars, codecVars,
                   notifVars>>

InitStore ==
    /\ presetIds = <<>>
    /\ presetItems = {}
    /\ idsIssued = 0
    /\ imCall = NoImCall

\* ------------------------------------------------------------------------
\* BLEClient: the device presets (bleClient.ts 347-430)

\* The devices whose firmware offers the four preset characteristics.
PresetFirmware == {"A"}

\* The getCharacteristic calls of the discovery, in their order.
NextPresetChar(kind) ==
    CASE kind = "save" -> "load"
      [] kind = "load" -> "list"
      [] kind = "list" -> "delete"
      [] kind = "delete" -> "save"

\* connect() has found the data characteristic and goes through the
\* discovery block (bleClient.ts 357-365) before it subscribes.
AtDiscovery == cPc = "startNotif" /\ psFor # connects

\* The preset characteristics this discovery has found so far.
FoundSoFar == IF psPc = "save" THEN 0 ELSE psFound

\* One getCharacteristic of the discovery resolves: the field is assigned.
PresetCharResolve ==
    /\ AtDiscovery
    /\ device \in PresetFirmware
    /\ gattConnected[device]
    /\ presetSave' = IF psPc = "save" THEN device ELSE presetSave
    /\ presetLoad' = IF psPc = "load" THEN device ELSE presetLoad
    /\ presetList' = IF psPc = "list" THEN device ELSE presetList
    /\ presetDelete' = IF psPc = "delete" THEN device ELSE presetDelete
    /\ psFound' = FoundSoFar + 1
    /\ psPc' = NextPresetChar(psPc)
    /\ psFor' = IF psPc = "delete" THEN connects ELSE psFor
    /\ delivered' = <<>>
    /\ lastCall' = NoCall
    /\ UNCHANGED <<bleVarsButHistory, kaVars, ccVars, psOp, psHist, codecVars, notifVars, storeVars>>

\* One getCharacteristic of the discovery rejects: the catch block warns;
\* the fields keep what they held.
PresetCharReject ==
    /\ AtDiscovery
    /\ ~(device \in PresetFirmware /\ gattConnected[device])
    /\ psFound' = FoundSoFar
    /\ psPc' = "save"
    /\ psFor' = connects
    /\ delivered' = <<>>
    /\ lastCall' = NoCall
    /\ UNCHANGED <<bleVarsButHistory, kaVars, ccVars, presetSave, presetLoad,
                   presetList, presetDelete, psOp, psHist, codecVars, notifVars, storeVars>>

\* connect() goes on to startNotifications once the discovery is through.
StartNotifResolveAfterDiscovery == ~AtDiscovery /\ StartNotifResolve

StartNotifRejectAfterDiscovery == ~AtDiscovery /\ StartNotifReject

\* hasDevicePresetSupport()
HasDevicePresetSupport == presetSave # None

\* op: the operation; at: the await it is suspended at; dev: the device of
\* the characteristic it wrote to or read from; slot: its slot.
PresetOp(op, at, dev, slot) == [op |-> op, at |-> at, dev |-> dev, slot |-> slot]

NoPresetOp == PresetOp("none", "idle", None, 0)

\* writes: load-slot writes issued; writeOk: the write resolved; reads:
\* settings reads issued; readFirst: a read was issued before the write had
\* resolved.
LoadHist(writes, writeOk, reads, readFirst) ==
    [writes |-> writes, writeOk |-> writeOk, reads |-> reads,
     readFirst |-> readFirst]

NoLoad == LoadHist(0, FALSE, 0, FALSE)

\* "Test"
TestName == <<84, 101, 115, 116>>

\* The slots the application passes: below, in and above the range.
PresetSlots == {0 - 1, 0, MAX_SLOTS - 1, MAX_SLOTS}

\* A faulty operation that encodes its arguments before it looks at the
\* characteristic.
PresetGuardEncodesFirst(ch, data) ==
    IF ~data.ok THEN data.error
    ELSE IF ch = None THEN "Unsupported"
    ELSE "pending"

\* How a preset operation begins: `if (!this.preset...Characteristic) throw
\* new Error('Device presets not supported')`, then the encoder, which may
\* throw, then the transport call.
PresetGuard(ch, data) ==
    IF ch = None THEN "Unsupported"
    ELSE IF ~data.ok THEN data.error
    ELSE "pending"

\* A preset operation up to its await.  One operation is outstanding at a
\* time.  pre: the slot was out of range.
PresetCall(op, ch, data, slot) ==
    LET r == PresetGuard(ch, data)
    IN  /\ psOp.at = "idle"
        /\ lastCall' = Call(op, r, r = "pending", NoSession, SlotInvalid(slot),
                            ch)
        /\ psOp' = IF r = "pending" THEN PresetOp(op, "transport", ch, slot)
                   ELSE psOp
        /\ psHist' = IF op # "loadDevicePreset" THEN psHist
                     ELSE IF r = "pending" THEN LoadHist(1, FALSE, 0, FALSE)
                     ELSE NoLoad
        /\ delivered' = <<>>
        /\ UNCHANGED <<bleVarsButHistory, kaVars, ccVars, presetSave,
                       presetLoad, presetList, presetDelete, psPc, psFor,
                       psFound, codecVars, notifVars, storeVars>>

\* saveDevicePreset(slot, name) (bleClient.ts 374-382)
SaveDevicePreset(slot, name) ==
    PresetCall("saveDevicePreset", presetSave, EncodePresetSave(slot, name),
               slot)

\* loadDevicePreset(slot) (bleClient.ts 387-398), up to the write
LoadDevicePreset(slot) ==
    PresetCall("loadDevicePreset", presetLoad, EncodePresetLoad(slot), slot)

\* listDevicePresets() (bleClient.ts 403-410), up to the read
ListDevicePresets ==
    PresetCall("listDevicePresets", presetList, Frame(<<>>), 0)

\* deleteDevicePreset(slot) (bleClient.ts 415-423)
DeleteDevicePreset(slot) ==
    PresetCall("deleteDevicePreset", presetDelete, EncodePresetDelete(slot),
               slot)

\* A faulty loadDevicePreset that reads back however the write settled.
ReadBackAlways(outcome) == TRUE

\* loadDevicePreset: `await ...writeValue(data)` comes before
\* `await this.loadFromDevice()`, so the read-back is reached only when the
\* write resolved.
ReadBackAfter(outcome) == outcome = "ok"

\* The runtime settles the writeValue or readValue of the outstanding preset
\* operation.  save, delete and list return or rethrow; load goes on to the
\* read-back.
PresetSettle(outcome) ==
    /\ psOp.at = "transport"
    /\ outcome \in WriteOutcomes(~gattConnected[psOp.dev])
    /\ psHist' = IF psOp.op = "loadDevicePreset"
                 THEN [psHist EXCEPT !.writeOk = (outcome = "ok")]
                 ELSE psHist
    /\ IF psOp.op = "loadDevicePreset" /\ ReadBackAfter(outcome)
       THEN /\ psOp' = [psOp EXCEPT !.at = "readBack"]
            /\ lastCall' = Call("loadWriteSettled", outcome, FALSE, NoSession,
                                FALSE, psOp.dev)
       ELSE /\ psOp' = NoPresetOp
            /\ lastCall' = Call(psOp.op, outcome, FALSE, NoSession, FALSE,
                                psOp.dev)
    /\ delivered' = <<>>
    /\ UNCHANGED <<bleVarsButHistory, kaVars, ccVars, presetSave, presetLoad,
                   presetList, presetDelete, psPc, psFor, psFound, codecVars, notifVars, storeVars>>

\* loadDevicePreset: `await this.loadFromDevice()`.  BLEClient as given has
\* no method of that name; following the specification (4.4) it is one
\* settings read on the data characteristic, as readData() makes it.
LoadReadBack(outcome) ==
    /\ psOp.at = "readBack"
    /\ outcome \in IF SendDataNotConnected THEN {"NotConnected"}
                   ELSE WriteOutcomes(~gattConnected[characteristic])
    /\ psHist' = [psHist EXCEPT
                    !.reads = IF SendDataNotConnected THEN @ ELSE @ + 1,
                    !.readFirst = @ \/ ~psHist.writeOk]
    /\ psOp' = NoPresetOp
    /\ lastCall' = Call("loadDevicePreset", outcome, ~SendDataNotConnected,
                        NoSession, FALSE, psOp.dev)
    /\ delivered' = <<>>
    /\ UNCHANGED <<bleVarsButHistory, kaVars, ccVars, presetSave, presetLoad,
                   presetList, presetDelete, psPc, psFor, psFound, codecVars, notifVars, storeVars>>

InitPresets ==
    /\ presetSave = None
    /\ presetLoad = None
    /\ presetList = None
    /\ presetDelete = None
    /\ psPc = "save"
    /\ psFor = 0
    /\ psFound = 0
    /\ psOp = NoPresetOp
    /\ psHist = NoLoad

\* ------------------------------------------------------------------------
\* The transport specifications

InitTransport ==
    /\ device = None
    /\ server = None
    /\ characteristic = None
    /\ onStatusChange = FALSE
    /\ gattConnected = [d \in Devices |-> FALSE]
    /\ devListeners = [d \in Devices |-> {}]
    /\ charListeners = [d \in Devices |-> {}]
    /\ pending = <<>>
    /\ cPc = "idle"
    /\ connects = 0
    /\ cStart = TRUE
    /\ applyInFlight = FALSE
    /\ notifications = "none"
    /\ session = "never"
    /\ delivered = <<>>
    /\ lastCall = NoCall

\* The scheduler, idle, and its tracker as their constructors leave them.
InitScheduler ==
    /\ isRunning = FALSE
    /\ pingInterval = FALSE
    /\ timers = 0
    /\ isActive = FALSE
    /\ subs = [src \in Sources |-> 0]
    /\ lastActivity = T0
    /\ wallNow = T0
    /\ tickDue = -1
    /\ thLastCall = 0
    /\ thTimeout = -1
    /\ kaTick = NoTick
    /\ away = FALSE
    /\ trk = NoTrk
    /\ lastRecordMs = T0
    /\ prevUpdateMs = -1
    /\ lastEventMs = -1
    /\ startRefused = FALSE
    /\ pingFailed = FALSE

InitKeepAlive ==
    /\ sendPingCallback = FALSE
    /\ InitScheduler

InitControl ==
    /\ mbDevice = None
    /\ mbServer = None
    /\ mbCharacteristic = None
    /\ lastSendMs = 0
    /\ perfNow = 0
    /\ mbGatt = [d \in Devices |-> FALSE]
    /\ mbListeners = [d \in Devices |-> 0]
    /\ mbPc = [at |-> "idle", dev |-> None]
    /\ mbConnects = 0
    /\ prevWriteMs = -1
    /\ steady = FALSE
    /\ lastOkMs = -1
    /\ ccCall = NoSend
    /\ dropsSince = FALSE
    /\ lastValue = -1
    /\ sentValue = -1

Init ==
    /\ btAvailable \in BOOLEAN
    /\ InitTransport
    /\ InitKeepAlive
    /\ InitControl
    /\ InitPresets
    /\ InitCodec
    /\ InitStore

\* BLEClient and the Synchronizer's applySettings.
Next ==
    \/ ConnectCall
    \/ \E d \in Devices : RequestDeviceResolve(d)
    \/ RequestDeviceReject
    \/ GattConnectResolve
    \/ GattConnectReject
    \/ GetServiceResolve
    \/ GetServiceReject
    \/ GetCharResolve
    \/ GetCharReject
    \/ StartNotifResolve
    \/ StartNotifReject
    \/ SetStatusChangeCallback
    \/ Disconnect
    \/ \E d \in Devices : LinkDrop(d)
    \/ ReadData
    \/ ApplySettings
    \/ \E i \in 1..MaxPending, o \in {"ok", "WriteFailed", "Disconnected"} :
           WriteSettle(i, o)

Spec == Init /\ [][Next]_vars

\* The instants at which the timer of PingSpec may fire.
PingInstants == {T0 + PING_INTERVAL}

\* The same with the keep-alive scheduler pinging through the client.
PingNext ==
    \/ Next
    \/ SetPingCallback
    \/ StartKeepAlive
    \/ StopKeepAlive
    \/ KeepAliveTick
    \/ \E t \in PingInstants : AdvanceClock(t)

PingSpec == Init /\ [][PingNext]_vars

\* The state of the client after its first connect() succeeded on device A.
SessionUp ==
    /\ device = "A"
    /\ server = "A"
    /\ characteristic = "A"
    /\ onStatusChange = FALSE
    /\ gattConnected = [d \in Devices |-> d = "A"]
    /\ devListeners = [d \in Devices |-> IF d = "A" THEN {ConnectBound(1)}
                                         ELSE {}]
    /\ charListeners = [d \in Devices |-> IF d = "A" THEN {ConnectBound(1)}
                                          ELSE {}]
    /\ pending = <<>>
    /\ cPc = "idle"
    /\ connects = 1
    /\ cStart = TRUE
    /\ applyInFlight = FALSE
    /\ notifications = "started"
    /\ session = "up"
    /\ delivered = <<>>
    /\ lastCall = Call("connect", "ok", FALSE, FALSE, TRUE, "A")

\* The instants at which the scheduler's environment acts, after T0: around
\* 120 s before the third tick, and at the ticks.
Instants ==
    {T0 + x : x \in {14000, 15000, 16000, PING_INTERVAL, 3 * PING_INTERVAL,
                     4 * PING_INTERVAL}}

\* The instants at which the tracker's environment acts, after T0: inside,
\* at the end of and after a throttle window.
TrackerInstants == {T0 + x : x \in {100, 400, 500, 600, 1000}}

\* The keep-alive scheduler and the Activity Tracker on the wall clock, the
\* ping callback installed, the client either fresh or with a session up.
KeepAliveInit ==
    /\ btAvailable = TRUE
    /\ InitTransport \/ SessionUp
    /\ sendPingCallback = TRUE
    /\ InitScheduler
    /\ InitControl
    /\ InitPresets
    /\ InitCodec
    /\ InitStore

KeepAliveNext ==
    \/ StartKeepAlive
    \/ StopKeepAlive
    \/ KeepAliveTick
    \/ \E t \in Instants : AdvanceClock(t)
    \/ ThrottledUpdate
    \/ HandleFocus
    \/ ThrottleTimeout
    \/ \E i \in 1..MaxPending, o \in {"ok", "WriteFailed", "Disconnected"} :
           WriteSettle(i, o)

KeepAliveSpec == KeepAliveInit /\ [][KeepAliveNext]_vars

\* The Activity Tracker, started and stopped by the scheduler, on the
\* millisecond scale of its throttle.
TrackerNext ==
    \/ SetPingCallback
    \/ StartKeepAlive
    \/ StopKeepAlive
    \/ \E t \in TrackerInstants : AdvanceClock(t)
    \/ ThrottledUpdate
    \/ HandleFocus
    \/ ThrottleTimeout

TrackerSpec == Init /\ [][TrackerNext]_vars

\* An Activity Tracker the application starts and stops itself.
ListenerNext ==
    \/ ActivityStart
    \/ ActivityStop
    \/ \E t \in TrackerInstants : AdvanceClock(t)
    \/ ThrottledUpdate
    \/ HandleFocus
    \/ ThrottleTimeout

ListenerSpec == Init /\ [][ListenerNext]_vars

\* BLEClient with the preset discovery in connect() and the preset
\* operations.
PresetNext ==
    \/ ConnectCall
    \/ \E d \in Devices : RequestDeviceResolve(d)
    \/ RequestDeviceReject
    \/ GattConnectResolve
    \/ GattConnectReject
    \/ GetServiceResolve
    \/ GetServiceReject
    \/ GetCharResolve
    \/ GetCharReject
    \/ PresetCharResolve
    \/ PresetCharReject
    \/ StartNotifResolveAfterDiscovery
    \/ StartNotifRejectAfterDiscovery
    \/ Disconnect
    \/ \E d \in Devices : LinkDrop(d)
    \/ \E slot \in PresetSlots : SaveDevicePreset(slot, TestName)
    \/ \E slot \in PresetSlots : LoadDevicePreset(slot)
    \/ ListDevicePresets
    \/ \E slot \in PresetSlots : DeleteDevicePreset(slot)
    \/ \E o \in {"ok", "WriteFailed", "Disconnected"} : PresetSettle(o)
    \/ \E o \in {"ok", "WriteFailed", "Disconnected", "NotConnected"} :
         LoadReadBack(o)

PresetSpec == Init /\ [][PresetNext]_vars

\* The codec functions on their own.
CodecNext ==
    \/ EncodePresetSaveCall
    \/ EncodePresetLoadCall
    \/ EncodePresetDeleteCall
    \/ DecodePresetListCall

CodecSpec == Init /\ [][CodecNext]_vars

\* sendSettings(settings), the Synchronizer's applySettings(next): the
\* single-flight gate, then encodeSettings, then sendData with the frame.
SendSettings(settings) ==
    LET frame == EncodeSettings(settings)
    IN  /\ ApplyGateClosed \/ ~frame.ok \/ SendDataNotConnected
             \/ Len(pending) < MaxPending
        /\ IF ApplyGateClosed
           THEN /\ lastCall' = Call("sendSettings", "OperationInProgress",
                                    FALSE, NoSession, FALSE, characteristic)
                /\ stCall' = NoStCall
                /\ UNCHANGED <<pending, applyInFlight>>
           ELSE IF ~frame.ok
           THEN /\ lastCall' = Call("sendSettings", frame.error, FALSE,
                                    NoSession, FALSE, characteristic)
                /\ stCall' = StCall(settings, frame)
                /\ UNCHANGED <<pending, applyInFlight>>
           ELSE IF SendDataNotConnected
           THEN /\ lastCall' = Call("sendSettings", "NotConnected", FALSE,
                                    NoSession, FALSE, characteristic)
                /\ stCall' = StCall(settings, frame)
                /\ UNCHANGED <<pending, applyInFlight>>
           ELSE /\ pending' = SendDataWrite("settings")
                /\ applyInFlight' = TRUE
                /\ lastCall' = Call("sendSettings", "pending", TRUE,
                                    NoSession, FALSE, characteristic)
                /\ stCall' = StCall(settings, frame)
        /\ delivered' = <<>>
        /\ UNCHANGED <<device, server, characteristic, onStatusChange,
                       btAvailable, gattConnected, devListeners,
                       charListeners, cPc, connects, cStart, session, kaVars,
                       ccVars, presetVars, cdCall, notifVars, storeVars>>

\* The settings path: a session, sendSettings, and the settling of its
\* writes.
SettingsInit ==
    /\ btAvailable = TRUE
    /\ InitTransport \/ SessionUp
    /\ InitKeepAlive
    /\ InitControl
    /\ InitPresets
    /\ InitCodec
    /\ InitStore

SettingsNext ==
    \/ \E settings \in SettingsInputs : SendSettings(settings)
    \/ \E i \in 1..MaxPending, o \in {"ok", "WriteFailed", "Disconnected"} :
           WriteSettle(i, o)
    \/ Disconnect
    \/ \E d \in Devices : LinkDrop(d)

SettingsSpec == SettingsInit /\ [][SettingsNext]_vars

\* The preset store on its own.
ImportNext ==
    \/ \E json \in ImportInputs : ImportAllPresets(json)
    \/ CreatePresetCall

ImportSpec == Init /\ [][ImportNext]_vars

\* The control channel on its own clock.
ControlInit ==
    /\ btAvailable = TRUE
    /\ InitTransport
    /\ InitKeepAlive
    /\ InitControl
    /\ InitPresets
    /\ InitCodec
    /\ InitStore

ControlNext ==
    \/ Tick
    \/ \E value \in CCValues : SendControlChange(value)
    \/ MbConnectCall
    \/ \E d \in Devices : MbGattConnectResolve(d)
    \/ MbConnectResolve
    \/ MbConnectReject
    \/ MbDisconnect
    \/ \E d \in Devices : MbLinkDrop(d)

ControlSpec == ControlInit /\ [][ControlNext]_vars

\* The runtime settles every GATT operation it accepted: with the link up
\* the device answers or the ATT transaction times out, and once the link is
\* down the operation fails with a NetworkError.
FairSpec ==
    /\ Spec
    /\ \A i \in 1..MaxPending :
           WF_vars(\E o \in {"ok", "WriteFailed", "Disconnected"} :
                       WriteSettle(i, o))

\* ------------------------------------------------------------------------
\* Claims about the transport

SettingsWrites == {i \in DOMAIN pending : pending[i].kind = "settings"}

\* C1: applySettings is single-flight.  A call made while the settings write
\* of an earlier call is outstanding is rejected with OperationInProgress
\* and issues no transport write; it leaves the outstanding write and the
\* gate as they were, so the first call settles as it would have alone; and
\* at most one settings write is ever outstanding.
C1_SingleFlight ==
    /\ [](Cardinality(SettingsWrites) <= 1)
    /\ []((lastCall.op = "applySettings" /\ lastCall.pre)
            => (lastCall.result = "OperationInProgress" /\ ~lastCall.wrote))
    /\ [][(lastCall'.op = "applySettings"
             /\ lastCall'.result = "OperationInProgress")
            => (pending' = pending /\ applyInFlight' = applyInFlight)]_vars

C1_Witness ==
    /\ lastCall.op = "applySettings"
    /\ lastCall.pre
    /\ lastCall.result = "OperationInProgress"
    /\ Cardinality(SettingsWrites) = 1

\* C2: when connect() rejects after it was called on a disconnected client,
\* no GATT link is connected, getStatus().connected is false, the
\* characteristic is null and a connected=false notification carrying the
\* error message was delivered.
C2_RejectedConnectLeavesDisconnected ==
    (lastCall.op = "connect" /\ lastCall.result = "rejected" /\ lastCall.pre)
      => /\ \A d \in Devices : ~gattConnected[d]
         /\ ~GetStatusConnected
         /\ characteristic = None
         /\ onStatusChange =>
              \E i \in DOMAIN delivered :
                  ~delivered[i].connected /\ delivered[i].error # None

\* C3: at most one GATT link opened by the client is connected.
C3_OneConnection ==
    Cardinality({d \in Devices : gattConnected[d]}) <= 1

\* The operations that go through sendData or readData, and got that far.
ReachedTransport ==
    \/ lastCall.op = "readData"
    \/ lastCall.op = "applySettings" /\ lastCall.result # "OperationInProgress"
    \/ lastCall.op = "tick" /\ lastCall.result \notin {"skipped", "noCallback"}

\* C4: with no session (never connected, after disconnect(), after a
\* disconnect event, after a failed connect from there) sendData and
\* readData reject as not connected and touch no characteristic.
C4_NoSessionRejects ==
    (ReachedTransport /\ lastCall.noSession)
      => (lastCall.result = "NotConnected" /\ ~lastCall.wrote)

C4_Witness ==
    /\ lastCall.op = "applySettings"
    /\ lastCall.noSession
    /\ lastCall.result = "NotConnected"
    /\ session = "disconnected"
    /\ connects = 2

\* C5: after disconnect() the value-changed listener connect() registered on
\* the data characteristic is gone, the characteristic and server references
\* are null and a connected=false notification was delivered.
C5_DisconnectUnsubscribes ==
    lastCall.op = "disconnect"
      => /\ lastCall.ch # None => charListeners[lastCall.ch] = {}
         /\ characteristic = None
         /\ server = None
         /\ onStatusChange =>
              \E i \in DOMAIN delivered : ~delivered[i].connected

\* C6: a gattserverdisconnected event on the client's device clears the
\* characteristic and server references and delivers connected=false, as
\* disconnect() does; afterwards sendData and readData reject as not
\* connected until a connect() succeeds.
C6_SpontaneousDisconnect ==
    /\ (lastCall.op = "gattserverdisconnected" /\ lastCall.pre)
         => /\ characteristic = None
            /\ server = None
            /\ onStatusChange =>
                 /\ delivered # <<>>
                 /\ \A i \in DOMAIN delivered :
                        delivered[i] = Status(FALSE, device, None)
    /\ (ReachedTransport /\ lastCall.noSession /\ session = "dropped")
         => (lastCall.result = "NotConnected" /\ ~lastCall.wrote)

C6_Witness ==
    /\ ReachedTransport
    /\ lastCall.noSession
    /\ session = "dropped"
    /\ lastCall.result = "NotConnected"
    /\ onStatusChange

SettingsWriteBroken ==
    \E i \in SettingsWrites : pending[i].broken

C8_OneWriteOutstanding == Len(pending) <= 1

\* ------------------------------------------------------------------------
\* Claims about the control channel

\* The call made a transport write (whether or not the write then failed).
Wrote(call) == call.outcome \in {"written", "writeFailed"}

\* C9: on a connected control channel any two transport writes of
\* sendControlChange are initiated at least 8 ms apart, and a call made at
\* least 8 ms after the previous call that wrote is written; so of two calls
\* 5 ms apart whose first is written the second is dropped, and of two calls
\* 10 ms apart both are written.
C9_RateLimit ==
    /\ (Wrote(ccCall) /\ ccCall.gap # -1) => ccCall.gap >= 8
    /\ (ccCall.connected /\ ccCall.steady /\ ccCall.gap >= 8) => Wrote(ccCall)
    /\ (ccCall.connected /\ ccCall.steady /\ ccCall.gap = 5)
         => ccCall.outcome = "dropped"
    /\ (ccCall.connected /\ ccCall.steady /\ ccCall.gap = 10) => Wrote(ccCall)

C9_Witness ==
    /\ ccCall.connected
    /\ ccCall.steady
    /\ ccCall.gap = 10
    /\ ccCall.outcome = "written"

\* C10: the window is measured from the last successful send: a call made on
\* a connected channel at least 8 ms after the last write that succeeded is
\* written, whatever failed attempts came in between.
C10_WindowFromLastSuccess ==
    (ccCall.connected /\ ccCall.gapOk >= 8) => Wrote(ccCall)


\* C11: a rate-limited sendControlChange is a silent no-op: it returns
\* normally, writes nothing and queues nothing (a frame goes to the transport
\* only in the step of a call that passed the rate check), and leaves
\* lastSendMs and the connection state as they were; so on a channel that
\* stayed connected a call made 8 ms or more after the previous call that
\* wrote is written even when calls were dropped in between.
C11_DropIsNoOp ==
    /\ [][((\E value \in CCValues : SendControlChange(value))
             /\ ccCall'.outcome = "dropped")
            => UNCHANGED <<lastSendMs, prevWriteMs, sentValue, mbDevice,
                           mbServer, mbCharacteristic, mbGatt>>]_vars
    /\ [][(prevWriteMs' # prevWriteMs \/ sentValue' # sentValue)
            => ((\E value \in CCValues : SendControlChange(value))
                  /\ Wrote(ccCall') /\ sentValue' = lastValue')]_vars
    /\ []((ccCall.connected /\ ccCall.steady /\ ccCall.afterDrop
             /\ ccCall.gap >= 8) => Wrote(ccCall))

C11_Witness ==
    /\ ccCall.connected
    /\ ccCall.steady
    /\ ccCall.afterDrop
    /\ ccCall.gap = 8
    /\ ccCall.outcome = "written"

\* The rate-limit window that began with the last write has run out.
WindowOver == perfNow - lastSendMs >= minIntervalMs

\* C12: latest value wins: once the window of a burst has run out on a
\* channel that stayed connected and whose last write succeeded, the value
\* last written to the transport is the value of the last call.
C12_LatestValueWins ==
    (mbCharacteristic # None /\ steady /\ WindowOver
       /\ lastOkMs = prevWriteMs /\ lastSendMs = prevWriteMs)
      => sentValue = lastValue


\* ------------------------------------------------------------------------
\* Claims about the keep-alive scheduler and the Activity Tracker

\* C13: a tick of the keep-alive timer invokes the ping callback if and only
\* if the time since the last recorded activity is strictly below the
\* activity timeout: at 119 s it pings, at exactly 120 s and at 121 s it
\* skips.
C13_PingIffRecentActivity ==
    kaTick.since # -1
      => /\ kaTick.invoked <=> kaTick.since < 120000
         /\ kaTick.since = 119000 => kaTick.invoked
         /\ kaTick.since \in {120000, 121000} => ~kaTick.invoked

C13_Witness ==
    /\ kaTick.since = 119000
    /\ kaTick.invoked

\* C14: walk-away: while the scheduler runs, a tick does not ping once the
\* activity timeout has passed since an interaction (or the start) was last
\* recorded, and the tick that follows a skipped one pings again when an
\* interaction was recorded within the timeout.
C14_WalkAway ==
    /\ (kaTick.running /\ kaTick.sinceRecord >= ACTIVITY_TIMEOUT)
         => ~kaTick.invoked
    /\ (kaTick.running /\ kaTick.resumed /\ kaTick.sinceRecord # -1
          /\ kaTick.sinceRecord < ACTIVITY_TIMEOUT) => kaTick.invoked

C14_Witness ==
    /\ kaTick.running
    /\ kaTick.resumed
    /\ kaTick.invoked
    /\ prevUpdateMs # -1

\* C15: startKeepAlive() without a ping callback returns without starting
\* anything: the scheduler is idle, no timer is armed and the tracker is not
\* started; a start succeeds only with a callback set, and then, also after
\* an earlier refusal, the scheduler runs with timer and tracker.
C15_StartWithoutCallback ==
    /\ (lastCall.op = "startKeepAlive" /\ lastCall.result = "noCallback")
         => (~isRunning /\ ~pingInterval /\ tickDue = -1 /\ ~isActive)
    /\ (lastCall.op = "startKeepAlive" /\ lastCall.result = "started")
         => /\ sendPingCallback
            /\ isRunning
            /\ pingInterval
            /\ tickDue = wallNow + PING_INTERVAL
            /\ isActive

C15_Witness ==
    /\ lastCall.op = "startKeepAlive"
    /\ lastCall.result = "started"
    /\ lastCall.pre
    /\ isRunning



\* A write of the data characteristic settles.
SomeWriteSettles ==
    \E i \in 1..MaxPending, o \in {"ok", "WriteFailed", "Disconnected"} :
        WriteSettle(i, o)

\* C16: a ping callback that rejects or throws does not stop the scheduler:
\* the step in which a ping fails leaves the scheduler running and its timer
\* armed, and a tick that comes after a failed ping with recent activity
\* invokes the callback again.
C16_FailedPingKeepsRunning ==
    /\ [][(SomeWriteSettles /\ lastCall'.op = "pingSettled"
             /\ lastCall'.result # "ok")
            => UNCHANGED <<isRunning, pingInterval, tickDue, isActive,
                           sendPingCallback>>]_vars
    /\ [][(KeepAliveTick /\ lastCall'.result = "NotConnected")
            => (isRunning' = isRunning /\ pingInterval'
                  /\ tickDue' = wallNow + PING_INTERVAL)]_vars
    /\ []((kaTick.afterFailure /\ kaTick.since # -1
             /\ kaTick.since < ACTIVITY_TIMEOUT) => kaTick.invoked)

C16_Witness ==
    /\ kaTick.afterFailure
    /\ kaTick.invoked
    /\ kaTick.running
    /\ isRunning
    /\ pingInterval

\* C17: stopKeepAlive() leaves the scheduler idle with the timer cancelled
\* and the tracker stopped; the timer fires only while the scheduler runs,
\* so no ping begins after a stop until the next start; and a
\* stopKeepAlive() on an idle scheduler changes nothing.
C17_StopKeepAlive ==
    /\ [](lastCall.op = "stopKeepAlive"
            => (~isRunning /\ ~pingInterval /\ tickDue = -1 /\ ~isActive))
    /\ [](~isRunning => ~pingInterval)
    /\ [][KeepAliveTick => isRunning]_vars
    /\ [][(StopKeepAlive /\ ~isRunning)
            => UNCHANGED <<kaSched, sendPingCallback, tickDue, wallNow,
                           isActive, lastActivity, thLastCall, thTimeout,
                           pending>>]_vars

C17_Witness ==
    /\ lastCall.op = "stopKeepAlive"
    /\ lastCall.result = "stopped"
    /\ kaTick.invoked
    /\ wallNow >= T0 + 3 * PING_INTERVAL

\* C18: at most one ping is in flight: a tick invokes the ping callback only
\* when the ping of every earlier tick has settled.
C18_OnePingInFlight == kaTick.invoked => kaTick.inFlight = 0

\* C19: no timer callback that was armed before ActivityTracker.stop() runs
\* after it: the throttle's timeout runs only while the tracker is tracking.
C19_NoTimerAfterStop == trk.op = "timeout" => trk.active

\* C20: while tracking, any two updates of the last-activity timestamp are at
\* least one throttle window apart.
C20_OneUpdatePerWindow ==
    (trk.updated /\ trk.active /\ trk.gap # -1) => trk.gap >= throttleDelay


\* C21: trailing edge of the throttle: the recorded timestamp is never older
\* than the most recent interaction event by more than one throttle window;
\* while an event is newer than the timestamp a timeout is armed for the end
\* of the current window, at most one window after that event; and the
\* timeout, when it runs, stamps the time at which it runs.
C21_TrailingEdge ==
    /\ [](lastEventMs # -1 => lastEventMs - lastActivity <= throttleDelay)
    /\ [](lastEventMs > lastActivity
            => /\ thTimeout # -1
               /\ thTimeout = thLastCall + throttleDelay
               /\ thTimeout <= lastEventMs + throttleDelay)
    /\ [][ThrottleTimeout
            => (lastActivity' = wallNow /\ lastActivity' >= lastEventMs)]_vars

C21_Witness ==
    /\ trk.op = "timeout"
    /\ trk.updated
    /\ lastEventMs = T0 + 100
    /\ lastActivity = T0 + throttleDelay


\* C22: start() and stop() are idempotent: every interaction source has one
\* listener while the tracker is tracking and none while it is not, whatever
\* the sequence of calls; start() while tracking and stop() while not
\* tracking change nothing.
C22_StartStopIdempotent ==
    /\ [](\A src \in Sources : subs[src] = IF isActive THEN 1 ELSE 0)
    /\ [][(ActivityStart /\ isActive)
            => UNCHANGED <<isActive, subs, lastActivity, thLastCall,
                           thTimeout>>]_vars
    /\ [][(ActivityStop /\ ~isActive)
            => UNCHANGED <<isActive, subs, lastActivity, thLastCall,
                           thTimeout>>]_vars

C22_Witness ==
    /\ lastCall.op = "trackerStart"
    /\ lastCall.result = "alreadyTracking"
    /\ wallNow > T0
    /\ \A src \in Sources : subs[src] = 1



\* ------------------------------------------------------------------------
\* Claims about the device presets

\* The session that is up came from a connect() whose discovery found none
\* of the preset characteristics.
UpWithoutPresets ==
    /\ session = "up"
    /\ cPc = "idle"
    /\ psFor = connects
    /\ psFound = 0

\* C23: capability negotiation is per connection: in a session whose
\* connect() discovered no preset characteristic, hasDevicePresetSupport()
\* is false and no saveDevicePreset call issues a transport write: it
\* rejects as unsupported, whatever earlier sessions discovered.
C23_CapabilityPerConnection ==
    UpWithoutPresets
      => /\ ~HasDevicePresetSupport
         /\ lastCall.op = "saveDevicePreset"
              => (lastCall.result # "pending" /\ ~lastCall.wrote)


PresetOps ==
    {"saveDevicePreset", "loadDevicePreset", "listDevicePresets",
     "deleteDevicePreset"}

\* C24: a preset operation called while its characteristic is absent rejects
\* as unsupported, whatever its slot (an out-of-range slot included), and
\* issues no transport read or write; an operation suspended at the transport
\* always has a characteristic.
C24_CapabilityCheckedFirst ==
    /\ (lastCall.op \in PresetOps /\ lastCall.ch = None)
         => /\ lastCall.result = "Unsupported"
            /\ ~lastCall.wrote
            /\ psOp.at = "idle"
    /\ psOp.at = "transport" => psOp.dev # None

\* An operation with an out-of-range slot was called without the
\* characteristic and rejected as unsupported.
C24_Witness ==
    /\ lastCall.op \in PresetOps \ {"listDevicePresets"}
    /\ lastCall.ch = None
    /\ lastCall.pre
    /\ lastCall.result = "Unsupported"


\* C25: a loadDevicePreset that resolves has issued its write, seen it
\* resolve, and then issued exactly one settings read; a settings read is
\* never issued for a load whose write did not resolve, and a load whose
\* write failed rejects without a read.
C25_ReadBackAfterWrite ==
    /\ psHist.reads > 0 => (psHist.writeOk /\ ~psHist.readFirst)
    /\ psHist.reads <= 1
    /\ (lastCall.op = "loadDevicePreset" /\ lastCall.result = "ok")
         => /\ psHist.writes = 1
            /\ psHist.writeOk
            /\ psHist.reads = 1
    /\ (lastCall.op = "loadDevicePreset" /\ lastCall.result # "pending"
          /\ psHist.writes = 1 /\ ~psHist.writeOk)
         => /\ lastCall.result # "ok"
            /\ psHist.reads = 0
            /\ psOp.at = "idle"

\* A loadDevicePreset resolved after its write and its read-back.
C25_Witness ==
    /\ lastCall.op = "loadDevicePreset"
    /\ lastCall.result = "ok"
    /\ psHist.writeOk
    /\ psHist.reads = 1

\* A loadDevicePreset rejected because its write failed.
LoadWriteFailed ==
    /\ lastCall.op = "loadDevicePreset"
    /\ lastCall.result \notin {"ok", "pending", "Unsupported", "InvalidSlot"}
    /\ psHist.writes = 1
    /\ ~psHist.writeOk


\* ------------------------------------------------------------------------
\* Claims about the subscription to notifications

\* The session was established by a connect() whose subscription failed.
PollingOnly == notifications = "failed" /\ session = "up" /\ cPc = "idle"

\* C26: when the subscription of connect() fails, connect() resolves and
\* delivers connected=true, registers no value-changed listener (so the
\* data-received callback has nothing to be invoked through), and sendData
\* and readData are not refused as not connected in that session.
C26_PollingOnly ==
    /\ (lastCall.op = "connect" /\ lastCall.result = "ok"
          /\ notifications = "failed")
         => /\ session = "up"
            /\ onStatusChange => delivered = <<Status(TRUE, device, None)>>
            /\ \A d \in Devices : ConnectBound(connects) \notin charListeners[d]
    /\ (PollingOnly /\ lastCall.op \in {"readData", "applySettings"})
         => lastCall.result # "NotConnected"

\* The same, for subscriptions that fail on a link that is still up.
PollingOnlyLinkUp ==
    /\ (lastCall.op = "connect" /\ lastCall.result = "ok"
          /\ notifications = "failed")
         => /\ session = "up"
            /\ onStatusChange => delivered = <<Status(TRUE, device, None)>>
            /\ \A d \in Devices : ConnectBound(connects) \notin charListeners[d]
    /\ (PollingOnly /\ characteristic # None
          /\ lastCall.op \in {"readData", "applySettings"})
         => lastCall.result # "NotConnected"

\* A read in a polling-only session went to the transport.
PollingRead ==
    /\ PollingOnly
    /\ lastCall.op = "readData"
    /\ lastCall.result = "ok"


\* ------------------------------------------------------------------------
\* Claims about the preset codec

\* The frame the name field is specified to hold: the first 32 bytes of the
\* UTF-8 encoding of the whole name, zero-padded.
SaveFrameExpected(slot, name) ==
    <<slot>> \o NameField(SubSeq(TextEncode(name), 1,
                                 Min(NAME_MAX_LENGTH, Len(TextEncode(name)))))

\* C27: for every slot in 0..7 and every name, encodePresetSave returns the
\* 33-byte frame of the slot and the first 32 bytes of the name's UTF-8
\* encoding, zero-padded.
C27_SaveFrame ==
    (cdCall.fn = "encodePresetSave" /\ cdCall.slot \in 0..(MAX_SLOTS - 1))
      => /\ cdCall.out.ok
         /\ Len(cdCall.out.bytes) = SAVE_FRAME_SIZE
         /\ cdCall.out.bytes = SaveFrameExpected(cdCall.slot, cdCall.name)

\* The same, for the names whose first 32 code units encode to at most 32
\* bytes.
SaveFrameWhenItFits ==
    (/\ cdCall.fn = "encodePresetSave"
     /\ cdCall.slot \in 0..(MAX_SLOTS - 1)
     /\ Len(TextEncode(Slice(cdCall.name, 0, NAME_MAX_LENGTH)))
          <= NAME_MAX_LENGTH)
      => /\ cdCall.out.ok
         /\ Len(cdCall.out.bytes) = SAVE_FRAME_SIZE
         /\ cdCall.out.bytes = SaveFrameExpected(cdCall.slot, cdCall.name)

\* A name longer than 32 bytes was cut and a shorter one padded.
SaveFrameCut ==
    /\ cdCall.fn = "encodePresetSave"
    /\ cdCall.out.ok
    /\ Len(TextEncode(cdCall.name)) > NAME_MAX_LENGTH


Encoders == {"encodePresetSave", "encodePresetLoad", "encodePresetDelete"}

FrameBytes(data, at, len) == [k \in 1..len |-> GetUint8(data, at + k - 1)]

\* The name a record is specified to decode to: the UTF-8 decoding of the
\* name bytes before the first zero byte, of all 32 if there is none.
NameExpected(data, i) ==
    LET field == FrameBytes(data, i * METADATA_SIZE, NAME_MAX_LENGTH)
    IN  TextDecode(IF IndexOfZero(field) >= 0
                   THEN SubSeq(field, 1, IndexOfZero(field))
                   ELSE field)

PresetExpected(data, i) ==
    [slot |-> i,
     name |-> NameExpected(data, i),
     timestamp |-> GetUint32LE(data, i * METADATA_SIZE + NAME_MAX_LENGTH),
     isValid |-> (GetUint8(data, i * METADATA_SIZE + NAME_MAX_LENGTH + 4) = 1)]

\* C29: for every frame of 8 records, decodePresetList returns for record i
\* the slot i, the decoded name (the empty string when the name field begins
\* with a zero byte), the little-endian timestamp and isValid.
C29_DecodeRoundTrip ==
    cdCall.fn = "decodePresetList"
      => /\ Len(cdCall.list) = MAX_SLOTS
         /\ \A i \in 0..(MAX_SLOTS - 1) :
              cdCall.list[i + 1] = PresetExpected(cdCall.data, i)

\* The same, with the placeholder for the empty names and for the DataViews
\* that begin at the start of their buffer.
DecodeWithPlaceholder ==
    (cdCall.fn = "decodePresetList" /\ cdCall.data.byteOffset = 0)
      => /\ Len(cdCall.list) = MAX_SLOTS
         /\ \A i \in 0..(MAX_SLOTS - 1) :
              cdCall.list[i + 1] =
                [PresetExpected(cdCall.data, i) EXCEPT
                   !.name = IF @ = <<>> THEN EMPTY_SLOT_NAME ELSE @]

\* A record with a 32-byte name, a full timestamp and isValid was decoded.
DecodedFullName ==
    /\ cdCall.fn = "decodePresetList"
    /\ cdCall.data.byteOffset = 0
    /\ \E i \in 1..MAX_SLOTS :
         /\ cdCall.list[i].name = Repeat(<<65>>, NAME_MAX_LENGTH)
         /\ cdCall.list[i].timestamp = [lo |-> 65535, hi |-> 65535]
         /\ cdCall.list[i].isValid


\* ------------------------------------------------------------------------
\* Claims about the settings codec

\* A CC number of the encoded settings is neither -1 nor in 0..127.
CCOutOfRange ==
    \E sec \in DOMAIN stCall.settings :
        stCall.settings[sec] \notin ({0 - 1} \cup (0..127))

SentinelWritten ==
    /\ lastCall.op = "sendSettings"
    /\ lastCall.wrote
    /\ \E sec \in DOMAIN stCall.settings : stCall.settings[sec] = 0 - 1


\* ------------------------------------------------------------------------
\* Claims about the preset capability flag

\* C32: whenever hasDevicePresetSupport() is true and no connect() is in
\* progress, the save, load, list and delete characteristics are all held,
\* and no preset operation called then fails its presence check.
C32_FlagCoversAllFour ==
    (HasDevicePresetSupport /\ cPc = "idle")
      => /\ presetSave # None
         /\ presetLoad # None
         /\ presetList # None
         /\ presetDelete # None
         /\ lastCall.op \in PresetOps => lastCall.result # "Unsupported"

\* The same, for the operation the flag is read from.
FlagCoversSave ==
    (HasDevicePresetSupport /\ lastCall.op = "saveDevicePreset")
      => lastCall.result # "Unsupported"


\* ------------------------------------------------------------------------
\* Claims about the status notifications and the session

\* C33: in the state a connected=true notification is delivered in, the
\* client holds a data characteristic, so that sendData would not throw
\* 'Not connected to device'.
C33_ConnectedMeansCharacteristic ==
    \A i \in DOMAIN delivered :
        delivered[i].connected => ~SendDataNotConnected

\* connected=true was delivered by a connect() no teardown interfered with.
ConnectedDelivered ==
    /\ delivered # <<>>
    /\ delivered[1].connected
    /\ characteristic # None
    /\ gattConnected[characteristic]


\* C34: in a state whose step delivered connected=false last, with no
\* connect() in progress, the client holds no data characteristic, so that
\* sendData and readData throw 'Not connected to device'.
C34_DisconnectedMeansNoSession ==
    (/\ delivered # <<>>
     /\ ~delivered[Len(delivered)].connected
     /\ cPc = "idle")
      => SendDataNotConnected

\* The same, for the notifications of disconnect() and of the disconnect
\* event.
TeardownMeansNoSession ==
    (/\ delivered # <<>>
     /\ ~delivered[Len(delivered)].connected
     /\ lastCall.op \in {"disconnect", "gattserverdisconnected"})
      => SendDataNotConnected


\* The last step took the client's device from connected to disconnected,
\* by disconnect() or by the disconnect event, with a callback registered.
WentDown ==
    /\ onStatusChange
    /\ lastCall.op \in {"disconnect", "gattserverdisconnected"}
    /\ lastCall.pre

\* C35: a step that takes the transport from connected to disconnected
\* delivers exactly one status notification, with connected=false.
C35_OneNotificationPerTeardown ==
    WentDown => (Len(delivered) = 1 /\ ~delivered[1].connected)

\* The same, for the disconnect event after a first connect().
OneNotificationFirstDrop ==
    (WentDown /\ lastCall.op = "gattserverdisconnected" /\ connects = 1)
      => (Len(delivered) = 1 /\ ~delivered[1].connected)

\* The disconnect event after a first connect() delivered its notification.
FirstDropDelivered ==
    /\ WentDown
    /\ lastCall.op = "gattserverdisconnected"
    /\ connects = 1
    /\ Len(delivered) = 1


\* C36: a disconnect event of a device other than the one the current
\* session's server and characteristic belong to leaves those references
\* alone and delivers no notification.
C36_ForeignDropIgnored ==
    [][\A d \in Devices :
         (LinkDrop(d) /\ server # None /\ server # d /\ characteristic # d)
           => /\ characteristic' = characteristic
              /\ server' = server
              /\ delivered' = <<>>]_vars

\* The same for midiBle: a disconnect event of another device leaves the
\* control channel's state alone.
MbForeignDropIgnored ==
    [][\A d \in Devices :
         (MbLinkDrop(d) /\ mbServer # None /\ mbServer # d)
           => /\ mbCharacteristic' = mbCharacteristic
              /\ mbServer' = mbServer]_vars

\* The disconnect event of the current device tore the session down.
OwnDropTearsDown ==
    /\ lastCall.op = "gattserverdisconnected"
    /\ lastCall.pre
    /\ characteristic = None
    /\ server = None


\* ------------------------------------------------------------------------
\* Claims about the scheduler's state

\* C37: isRunning holds exactly when one interval timer is armed and exactly
\* when the Activity Tracker is tracking; there is never a second timer, and
\* this.pingInterval holds the timer that is armed.
C37_RunningIffArmedIffTracking ==
    /\ isRunning <=> timers = 1
    /\ isRunning <=> isActive
    /\ timers \in {0, 1}
    /\ pingInterval <=> timers = 1

\* startKeepAlive() was called again on a running scheduler.
C37_Witness ==
    /\ lastCall.op = "startKeepAlive"
    /\ lastCall.result = "alreadyRunning"
    /\ isRunning
    /\ timers = 1
    /\ isActive


\* ------------------------------------------------------------------------
\* The preset store: importAllPresets

\* C38: importAllPresets returns the number of presets it added: after the
\* call the new entries of the preset id list are as many as the count it
\* returned, for every input.
C38_ImportCountIsAdded ==
    imCall.called => imCall.result = imCall.added

\* The same, for inputs with no null element.
ImportCountWithoutNull ==
    (imCall.called /\ \A i \in DOMAIN imCall.json.entries :
                         imCall.json.entries[i] # "null")
      => imCall.result = imCall.added

\* An import has stopped part-way after it added presets.
ImportStoppedPartWay ==
    imCall.called /\ imCall.added > 0 /\ imCall.result = 0

====
